---- MODULE Spec2Model ----
(***************************************************************************)
(* Model of the trip recommendation engine of UIUC-bustle                  *)
(* (backend/src/recommendation/service.py, compute_recommendations).       *)
(*                                                                         *)
(* Fixed-point representation of the engine's floats:                      *)
(*   - a duration in minutes is an integer number of ticks, 90 ticks to    *)
(*     the minute (one tick = 2/3 s).  One decimal of a minute is 9 ticks, *)
(*     an odd number, so rounding to one decimal never meets a tie;        *)
(*   - values emitted by round(x, 1) are integers counting tenths of a     *)
(*     minute;                                                             *)
(*   - timestamps are integer seconds (even, so that they are whole ticks);*)
(*   - all points lie on one meridian; a latitude is given as metres of    *)
(*     arc along it, where the haversine distance is exactly the absolute  *)
(*     difference;                                                         *)
(*   - speeds are in tenths of a metre per second;                         *)
(*   - a Python str that is formatted or compared is a sequence of         *)
(*     character codes; an Optional value is <<>> (None) or <<v>>.         *)
(***************************************************************************)
EXTENDS Integers, Sequences, FiniteSets, TLC

VARIABLES
    args,                  \* keyword arguments of the call
    pc,                    \* position of the call in compute_recommendations
    now_ts,                \* now.timestamp()
    minutes_until_arrival, \* local of the same name (ticks)
    walk_only_min,         \* local of the same name (ticks)
    walk_option,           \* Optional option dict
    user_stops,            \* result of the first locator query
    dest_stops,            \* result of the second locator query
    exit_stop,             \* Optional stop tuple
    walk_from_stop_min,    \* local of the same name (ticks)
    boards,                \* departure lists returned so far, one per boarding stop
    bus_candidates,        \* list of <<score, option>>
    calls,                 \* provider invocations, in order
    result,                \* Optional returned list
    error,                 \* Optional raised exception
    session,               \* a sequence of calls against fixed provider data
    http,                  \* the requests main.py is handling, and what they share
    mtd,                   \* an MTDClient: its clock, its cache, its upstream requests
    stops_q,               \* one stops_repo.search_nearby query
    sched,                 \* the buildings and schedule_classes tables
    geo                    \* one pair of points given to haversine_distance_km

engine_vars == <<args, pc, now_ts, minutes_until_arrival, walk_only_min, walk_option,
                 user_stops, dest_stops, exit_stop, walk_from_stop_min, boards,
                 bus_candidates, calls, result, error>>

\* the state outside compute_recommendations, which the engine never touches
outside_engine == <<session, http, mtd, stops_q, sched, geo>>

vars == <<engine_vars, outside_engine>>

\* the value of a variable in a specification that does not involve it
Unused == <<>>

----------------------------------------------------------------------------
(* Representation helpers *)

None == <<>>
Some(v) == <<v>>
IsNone(o) == Len(o) = 0
Get(o) == o[1]

TicksPerMinute == 9 * 10
TicksPerTenth == TicksPerMinute \div 10
Minutes(n) == n * TicksPerMinute

Max2(a, b) == IF a >= b THEN a ELSE b
Min2(a, b) == IF a <= b THEN a ELSE b
Abs(x) == IF x >= 0 THEN x ELSE -x

\* round(x, 1): the nearest tenth of a minute (9 ticks to the tenth: no ties)
Round1(x) == (x + (TicksPerTenth \div 2)) \div TicksPerTenth

\* decimal digits of a natural number, as character codes
RECURSIVE Digits(_)
Digits(n) == IF n < 10 THEN <<48 + n>> ELSE Digits(n \div 10) \o <<48 + (n % 10)>>

\* f"{x:.0f}" for x >= 0: nearest whole minute, an exact half goes to the even one
Fmt0f(x) ==
    LET q == x \div TicksPerMinute
        r == x % TicksPerMinute
        half == TicksPerMinute \div 2
        n == IF r < half THEN q
             ELSE IF r > half THEN q + 1
             ELSE IF q % 2 = 0 THEN q ELSE q + 1
    IN Digits(n)

\* str.strip(): leading and trailing blanks removed
RECURSIVE LStrip(_)
LStrip(s) == IF Len(s) > 0 /\ s[1] = 32 THEN LStrip(Tail(s)) ELSE s
RECURSIVE RStrip(_)
RStrip(s) == IF Len(s) > 0 /\ s[Len(s)] = 32 THEN RStrip(SubSeq(s, 1, Len(s) - 1)) ELSE s
Strip(s) == RStrip(LStrip(s))

\* Python's str comparison: lexicographic by code point
RECURSIVE StrLess(_, _)
StrLess(a, b) ==
    IF Len(b) = 0 THEN FALSE
    ELSE IF Len(a) = 0 THEN TRUE
    ELSE IF a[1] # b[1] THEN a[1] < b[1]
    ELSE StrLess(Tail(a), Tail(b))

\* comparison of the sort keys (number, str)
KeyLess(k1, k2) == k1[1] < k2[1] \/ (k1[1] = k2[1] /\ StrLess(k1[2], k2[2]))
KeyLeq(k1, k2) == ~KeyLess(k2, k1)

\* list.sort(key=...): stable, ascending, on a list of <<key, item>> pairs
RECURSIVE InsertByKey(_, _)
InsertByKey(x, sorted) ==
    IF Len(sorted) = 0 THEN <<x>>
    ELSE IF KeyLess(x[1], sorted[Len(sorted)][1])
         THEN InsertByKey(x, SubSeq(sorted, 1, Len(sorted) - 1)) \o <<sorted[Len(sorted)]>>
         ELSE sorted \o <<x>>
RECURSIVE SortByKey(_)
SortByKey(s) ==
    IF Len(s) = 0 THEN <<>>
    ELSE InsertByKey(s[Len(s)], SortByKey(SubSeq(s, 1, Len(s) - 1)))

\* s[:n] for n >= 0
Take(s, n) == SubSeq(s, 1, Min2(n, Len(s)))

----------------------------------------------------------------------------
(* Constants of service.py, geo.py *)

BUS_SPEED_MPS == 60
USER_STOP_RADIUS_M == 800
DEST_STOP_RADIUS_M == 500

\* haversine_distance_m on one meridian (latitudes in metres of arc)
haversine_distance_m(lat1, lng1, lat2, lng2) == Abs(lat2 - lat1)


\* _parse_arrive_by: None for text fromisoformat rejects; a trailing Z reads as
\* +00:00; a naive time is taken as UTC.  A datetime is its wall-clock seconds
\* and its UTC offset.
_parse_arrive_by(arrive_by_iso) ==
    IF arrive_by_iso.form = "garbage" THEN None
    ELSE IF arrive_by_iso.form = "offset"
         THEN Some([wall |-> arrive_by_iso.wall, utcoffset |-> arrive_by_iso.off])
         ELSE Some([wall |-> arrive_by_iso.wall, utcoffset |-> 0])

\* datetime.timestamp()
timestamp(t) == t.wall - t.utcoffset

\* _walk_minutes (ticks; speed in tenths of a metre per second)
_walk_minutes(distance_m, walking_speed_mps) ==
    IF walking_speed_mps <= 0 THEN 0
    ELSE (distance_m * 10 * TicksPerMinute) \div (walking_speed_mps * 60)

\* _ride_minutes_heuristic (ticks)
_ride_minutes_heuristic(distance_m) ==
    IF BUS_SPEED_MPS <= 0 THEN 0
    ELSE (distance_m * 10 * TicksPerMinute) \div (BUS_SPEED_MPS * 60)

\* the clamp of the walking speed left out
walk_speed_unclamped(walking_speed_mps) == walking_speed_mps

\* walk_speed = max(0.1, walking_speed_mps)
walk_speed(walking_speed_mps) == Max2(1, walking_speed_mps)

\* max and min exchanged in the clamp of max_options
max_opts_swapped(max_options) == Max2(1, Max2(10, max_options))

\* max_opts = max(1, min(10, max_options))
max_opts(max_options) == Max2(1, Min2(10, max_options))

\* d.get(k) or "": None and the empty string both give ""
OrEmpty(o) == IF IsNone(o) THEN <<>> ELSE Get(o)

\* int(d.get("expected_mins") or 0)
ExpectedMins(d) == IF IsNone(d.expected_mins) THEN 0 ELSE Get(d.expected_mins)

\* the floor at 0 of the wait left out
wait_min_unfloored(expected_mins, walk_to_stop_min) ==
    Minutes(expected_mins) - walk_to_stop_min

\* wait_min = max(0.0, float(expected_mins) - walk_to_stop_min)
wait_min(expected_mins, walk_to_stop_min) ==
    Max2(0, Minutes(expected_mins) - walk_to_stop_min)

\* the last leg forgotten in the total
total_eta_without_last_leg(walk_to_stop_min, wait, ride_min, walk_from) ==
    walk_to_stop_min + wait + ride_min

\* total_eta = walk_to_stop_min + wait_min + ride_min + walk_from_stop_min
total_eta_of(walk_to_stop_min, wait, ride_min, walk_from) ==
    walk_to_stop_min + wait + ride_min + walk_from

\* the buffer left out of the time to leave
depart_in_without_buffer(mua, total_eta, buffer_minutes) == Max2(0, mua - total_eta)

\* depart_in = max(0.0, minutes_until_arrival - total_eta - buffer_minutes), line 139
depart_in_of(mua, total_eta, buffer_minutes) == Max2(0, mua - total_eta - buffer_minutes)

\* the test of line 137 that keeps a bus candidate
WithinBudget(total_eta, mua, buffer_minutes) == ~(total_eta > mua - buffer_minutes)

\* the test of line 87 that emits the WALK option (seconds scaled to ticks)
WalkDepartsInTime(now, depart_in_walk, arrive_by_ts) ==
    now * TicksPerMinute + depart_in_walk * 60 <= (arrive_by_ts + 1) * TicksPerMinute

TxtWalkTo == <<87, 97, 108, 107, 32, 116, 111, 32>>
TxtBus == <<66, 117, 115, 32>>
TxtTo == <<32, 116, 111, 32>>
TxtDestination == <<100, 101, 115, 116, 105, 110, 97, 116, 105, 111, 110>>
TxtOpen == <<32, 40>>
TxtMin == <<32, 109, 105, 110, 41>>

\* the WALK option dict of lines 88-102
WalkOption(a, walk_min, depart_in_walk) ==
    [type |-> "WALK",
     summary |-> TxtWalkTo \o a.destination_name \o TxtOpen \o Fmt0f(walk_min) \o TxtMin,
     eta_minutes |-> Round1(walk_min),
     depart_in_minutes |-> Round1(depart_in_walk),
     steps |-> << [type |-> "WALK_TO_DEST",
                   building_id |-> a.destination_building_id,
                   duration_minutes |-> Round1(walk_min),
                   building_lat |-> a.destination_lat,
                   building_lng |-> a.destination_lng] >>]

\* the WAIT and RIDE steps exchanged
BusSteps_swapped(a, stop, route, headsign, walk_to_stop_min, wait, ride_min, walk_from, exit) ==
    << [type |-> "WALK_TO_STOP", stop_id |-> stop[1], stop_name |-> stop[2],
        duration_minutes |-> Round1(walk_to_stop_min),
        stop_lat |-> stop[3], stop_lng |-> stop[4]],
       [type |-> "RIDE", route |-> route, headsign |-> headsign, stop_id |-> stop[1],
        duration_minutes |-> Round1(ride_min),
        alighting_stop_id |-> IF IsNone(exit) THEN None ELSE Some(Get(exit)[1]),
        alighting_stop_lat |-> IF IsNone(exit) THEN None ELSE Some(Get(exit)[3]),
        alighting_stop_lng |-> IF IsNone(exit) THEN None ELSE Some(Get(exit)[4])],
       [type |-> "WAIT", stop_id |-> stop[1], duration_minutes |-> Round1(wait)],
       [type |-> "WALK_TO_DEST", building_id |-> a.destination_building_id,
        duration_minutes |-> Round1(walk_from),
        building_lat |-> a.destination_lat, building_lng |-> a.destination_lng] >>

\* the four steps of a BUS option, lines 146-154
BusSteps(a, stop, route, headsign, walk_to_stop_min, wait, ride_min, walk_from, exit) ==
    << [type |-> "WALK_TO_STOP", stop_id |-> stop[1], stop_name |-> stop[2],
        duration_minutes |-> Round1(walk_to_stop_min),
        stop_lat |-> stop[3], stop_lng |-> stop[4]],
       [type |-> "WAIT", stop_id |-> stop[1], duration_minutes |-> Round1(wait)],
       [type |-> "RIDE", route |-> route, headsign |-> headsign, stop_id |-> stop[1],
        duration_minutes |-> Round1(ride_min),
        alighting_stop_id |-> IF IsNone(exit) THEN None ELSE Some(Get(exit)[1]),
        alighting_stop_lat |-> IF IsNone(exit) THEN None ELSE Some(Get(exit)[3]),
        alighting_stop_lng |-> IF IsNone(exit) THEN None ELSE Some(Get(exit)[4])],
       [type |-> "WALK_TO_DEST", building_id |-> a.destination_building_id,
        duration_minutes |-> Round1(walk_from),
        building_lat |-> a.destination_lat, building_lng |-> a.destination_lng] >>

\* a departure due before the rider reaches the stop dropped instead of waited
\* for 0 minutes
Candidate_skip_missed(a, mua, stop, walk_to_stop_min, ride_min, walk_from, exit, d) ==
    LET route == Strip(OrEmpty(d.route))
        headsign == Strip(OrEmpty(d.headsign))
        wait == wait_min(ExpectedMins(d), walk_to_stop_min)
        total_eta == total_eta_of(walk_to_stop_min, wait, ride_min, walk_from)
        depart_in == depart_in_of(mua, total_eta, a.buffer_minutes)
    IN [keep |-> /\ WithinBudget(total_eta, mua, a.buffer_minutes)
                 /\ Minutes(ExpectedMins(d)) >= walk_to_stop_min,
        cand |-> << total_eta,
                    [type |-> "BUS",
                     summary |-> TxtBus \o route \o TxtTo
                                 \o (IF Len(headsign) = 0 THEN TxtDestination ELSE headsign)
                                 \o TxtOpen \o Fmt0f(total_eta) \o TxtMin,
                     eta_minutes |-> Round1(total_eta),
                     depart_in_minutes |-> Round1(depart_in),
                     steps |-> BusSteps(a, stop, route, headsign, walk_to_stop_min,
                                        wait, ride_min, walk_from, exit)] >>]

\* one pass of the inner loop, lines 131-155: the candidate of departure d, and
\* whether it is kept
Candidate(a, mua, stop, walk_to_stop_min, ride_min, walk_from, exit, d) ==
    LET route == Strip(OrEmpty(d.route))
        headsign == Strip(OrEmpty(d.headsign))
        wait == wait_min(ExpectedMins(d), walk_to_stop_min)
        total_eta == total_eta_of(walk_to_stop_min, wait, ride_min, walk_from)
        depart_in == depart_in_of(mua, total_eta, a.buffer_minutes)
    IN [keep |-> WithinBudget(total_eta, mua, a.buffer_minutes),
        cand |-> << total_eta,
                    [type |-> "BUS",
                     summary |-> TxtBus \o route \o TxtTo
                                 \o (IF Len(headsign) = 0 THEN TxtDestination ELSE headsign)
                                 \o TxtOpen \o Fmt0f(total_eta) \o TxtMin,
                     eta_minutes |-> Round1(total_eta),
                     depart_in_minutes |-> Round1(depart_in),
                     steps |-> BusSteps(a, stop, route, headsign, walk_to_stop_min,
                                        wait, ride_min, walk_from, exit)] >>]

\* the body of the outer loop for one boarding stop, lines 121-155
CandidatesOfStop(a, mua, stop, walk_from, exit, departures) ==
    LET speed == walk_speed(a.walking_speed_mps)
        walk_to_stop_m == haversine_distance_m(a.lat, a.lng, stop[3], stop[4])
        walk_to_stop_min == _walk_minutes(walk_to_stop_m, speed)
        ride_dist_m == IF ~IsNone(exit)
                       THEN haversine_distance_m(stop[3], stop[4], Get(exit)[3], Get(exit)[4])
                       ELSE haversine_distance_m(stop[3], stop[4],
                                                 a.destination_lat, a.destination_lng)
        ride_min == _ride_minutes_heuristic(ride_dist_m)
        all == [i \in 1..Len(departures) |->
                  Candidate(a, mua, stop, walk_to_stop_min, ride_min, walk_from, exit,
                            departures[i])]
        kept == SelectSeq(all, LAMBDA c : c.keep)
    IN [i \in 1..Len(kept) |-> kept[i].cand]

\* the exit stop taken with d <= exit_dist_m: the last of the nearest stops
RECURSIVE ExitStop_last_nearest(_, _, _)
ExitStop_last_nearest(a, stops, best) ==
    IF Len(stops) = 0 THEN best
    ELSE LET s == Head(stops)
             d == haversine_distance_m(s[3], s[4], a.destination_lat, a.destination_lng)
         IN IF IsNone(best) \/ d <= Get(best).dist
            THEN ExitStop_last_nearest(a, Tail(stops), Some([dist |-> d, stop |-> s]))
            ELSE ExitStop_last_nearest(a, Tail(stops), best)

\* the exit stop of lines 108-114: the first of the nearest destination-side stops
RECURSIVE ExitStop(_, _, _)
ExitStop(a, stops, best) ==
    IF Len(stops) = 0 THEN best
    ELSE LET s == Head(stops)
             d == haversine_distance_m(s[3], s[4], a.destination_lat, a.destination_lng)
         IN IF IsNone(best) \/ d < Get(best).dist
            THEN ExitStop(a, Tail(stops), Some([dist |-> d, stop |-> s]))
            ELSE ExitStop(a, Tail(stops), best)

\* bus_candidates.sort(key=lambda x: (x[0], x[1]["summary"])), line 158
SortCandidates(cands) ==
    LET keyed == [i \in 1..Len(cands) |-> << <<cands[i][1], cands[i][2].summary>>, cands[i] >>]
        sorted == SortByKey(keyed)
    IN [i \in 1..Len(sorted) |-> sorted[i][2]]

\* the final sort left out
SortOptions_none(options) == options

\* options.sort(key=lambda o: (o["eta_minutes"], o["summary"])), line 163
SortOptions(options) ==
    LET keyed == [i \in 1..Len(options) |->
                    << <<options[i].eta_minutes, options[i].summary>>, options[i] >>]
        sorted == SortByKey(keyed)
    IN [i \in 1..Len(sorted) |-> sorted[i][2]]

\* the slot of the WALK option not reserved: max_opts BUS options taken
RankOptions_no_reserve(cands, walk, max_options) ==
    LET m == max_opts(max_options)
        sorted == SortCandidates(cands)
        best == Take(sorted, m)
        options == [i \in 1..Len(best) |-> best[i][2]]
                   \o (IF ~IsNone(walk) THEN <<Get(walk)>> ELSE <<>>)
    IN Take(SortOptions(options), m)

\* lines 157-164: the returned list
RankOptions(cands, walk, max_options) ==
    LET m == max_opts(max_options)
        sorted == SortCandidates(cands)
        best == Take(sorted, IF ~IsNone(walk) THEN m - 1 ELSE m)
        options == [i \in 1..Len(best) |-> best[i][2]]
                   \o (IF ~IsNone(walk) THEN <<Get(walk)>> ELSE <<>>)
    IN Take(SortOptions(options), m)

----------------------------------------------------------------------------
(* Inputs of the call and answers of the injected providers *)

\* most departures one departure board holds
MaxDeps == 2
\* largest max_options requested
MaxOptionsIn == 3

\* arrive_by_iso: "<wall>Z", "<wall>" (naive), "<wall>+00:02", and unparsable text
ArriveByInputs ==
    { [form |-> "Z", wall |-> 0, off |-> 0],
      [form |-> "naive", wall |-> 16, off |-> 0],
      [form |-> "offset", wall |-> 520, off |-> 120],
      [form |-> "garbage", wall |-> 0, off |-> 0] }

\* now: injected, or None and then read from the system clock
NowInputs == {Some(0), None}
ClockReadings == {4}

\* 1.5 m/s, and the non-positive speeds 0 and -1.0
SpeedInputs == {15, 0, -10}

\* buffer_minutes: 0 and 0.1 min
BufferInputs == {0, TicksPerTenth}

Args ==
    [lat : {0}, lng : {0},
     destination_building_id : {"siebel"},
     destination_lat : {24}, destination_lng : {0},
     destination_name : {<<90>>},
     arrive_by_iso : ArriveByInputs,
     walking_speed_mps : SpeedInputs,
     buffer_minutes : BufferInputs,
     max_options : 1..MaxOptionsIn,
     now : NowInputs]

\* stops (stop_id, name, lat, lng) the locator knows
StopUniverse == { <<"A", "Stop A", 4, 0>>, <<"B", "Stop B", 20, 0>> }

Injective(f) == \A i, j \in DOMAIN f : f[i] = f[j] => i = j
ListsOf(S, n) == { f \in UNION { [1..k -> S] : k \in 0..n } : Injective(f) }

\* lists the stop locator may return
StopLists == ListsOf(StopUniverse, Cardinality(StopUniverse))

\* departures as the departure lookup hands them over: route "5" due in 1 min,
\* route " 5" (padded) with no headsign and no expected_mins, no route and an
\* empty headsign due -1 min
DepUniverse ==
    { [route |-> Some(<<53>>), headsign |-> Some(<<76>>), expected_mins |-> Some(1)],
      [route |-> Some(<<32, 53>>), headsign |-> None, expected_mins |-> None],
      [route |-> None, headsign |-> Some(<<>>), expected_mins |-> Some(-1)] }

\* departure boards the lookup may return
Boards == ListsOf(DepUniverse, MaxDeps)

----------------------------------------------------------------------------
(* The call, split at its provider invocations *)

Init ==
    /\ args \in Args
    /\ pc = "call"
    /\ now_ts = 0
    /\ minutes_until_arrival = 0
    /\ walk_only_min = 0
    /\ walk_option = None
    /\ user_stops = <<>>
    /\ dest_stops = <<>>
    /\ exit_stop = None
    /\ walk_from_stop_min = 0
    /\ boards = <<>>
    /\ bus_candidates = <<>>
    /\ calls = <<>>
    /\ result = None
    /\ error = None
    /\ session = Unused
    /\ http = Unused
    /\ mtd = Unused
    /\ stops_q = Unused
    /\ sched = Unused
    /\ geo = Unused

\* the deadline checked only after the first locator query
RaiseInvalid_late ==
    /\ pc = "call"
    /\ IsNone(_parse_arrive_by(args.arrive_by_iso))
    /\ pc' = "raised"
    /\ error' = Some("invalid_arrive_by")
    /\ calls' = Append(calls, [fn |-> "search_nearby_stops", lat |-> args.lat,
                               lng |-> args.lng, radius_m |-> USER_STOP_RADIUS_M,
                               limit |-> 10])
    /\ UNCHANGED <<args, now_ts, minutes_until_arrival, walk_only_min, walk_option,
                   user_stops, dest_stops, exit_stop, walk_from_stop_min, boards,
                   bus_candidates, result>>
    /\ UNCHANGED outside_engine

\* lines 68-72, deadline unparsable: raise ValueError("invalid_arrive_by")
RaiseInvalid ==
    /\ pc = "call"
    /\ IsNone(_parse_arrive_by(args.arrive_by_iso))
    /\ pc' = "raised"
    /\ error' = Some("invalid_arrive_by")
    /\ UNCHANGED <<args, now_ts, minutes_until_arrival, walk_only_min, walk_option,
                   user_stops, dest_stops, exit_stop, walk_from_stop_min, boards,
                   bus_candidates, calls, result>>
    /\ UNCHANGED outside_engine

\* lines 68-102: resolve now, parse the deadline, build the WALK option
Enter ==
    /\ pc = "call"
    /\ ~IsNone(_parse_arrive_by(args.arrive_by_iso))
    /\ \E clock \in ClockReadings :
         LET now == IF IsNone(args.now) THEN clock ELSE Get(args.now)
             arrive_by_ts == timestamp(Get(_parse_arrive_by(args.arrive_by_iso)))
             speed == walk_speed(args.walking_speed_mps)
             dist_user_building_m ==
                 haversine_distance_m(args.lat, args.lng,
                                      args.destination_lat, args.destination_lng)
             walk_min == _walk_minutes(dist_user_building_m, speed)
             mua == ((arrive_by_ts - now) * TicksPerMinute) \div 60
             depart_in_walk == Max2(0, mua - walk_min - args.buffer_minutes)
         IN /\ now_ts' = now
            /\ walk_only_min' = walk_min
            /\ minutes_until_arrival' = mua
            /\ walk_option' = IF WalkDepartsInTime(now, depart_in_walk, arrive_by_ts)
                              THEN Some(WalkOption(args, walk_min, depart_in_walk))
                              ELSE None
    /\ pc' = "search_user"
    /\ UNCHANGED <<args, user_stops, dest_stops, exit_stop, walk_from_stop_min, boards,
                   bus_candidates, calls, result, error>>
    /\ UNCHANGED outside_engine

\* line 105: search_nearby_stops(lat, lng, USER_STOP_RADIUS_M, 10)
SearchUserStops ==
    /\ pc = "search_user"
    /\ \E stops \in StopLists : user_stops' = stops
    /\ calls' = Append(calls, [fn |-> "search_nearby_stops", lat |-> args.lat,
                               lng |-> args.lng, radius_m |-> USER_STOP_RADIUS_M,
                               limit |-> 10])
    /\ pc' = "search_dest"
    /\ UNCHANGED <<args, now_ts, minutes_until_arrival, walk_only_min, walk_option,
                   dest_stops, exit_stop, walk_from_stop_min, boards, bus_candidates,
                   result, error>>
    /\ UNCHANGED outside_engine

\* lines 106-115 with the locator answering one of the lists given
SearchDestStopsAmong(lists) ==
    /\ pc = "search_dest"
    /\ \E stops \in lists :
         LET best == ExitStop(args, stops, None)
         IN /\ dest_stops' = stops
            /\ exit_stop' = IF IsNone(best) THEN None ELSE Some(Get(best).stop)
            /\ walk_from_stop_min' =
                 IF ~IsNone(best)
                 THEN _walk_minutes(Get(best).dist, walk_speed(args.walking_speed_mps))
                 ELSE Minutes(5)
    /\ calls' = Append(calls, [fn |-> "search_nearby_stops", lat |-> args.destination_lat,
                               lng |-> args.destination_lng,
                               radius_m |-> DEST_STOP_RADIUS_M, limit |-> 5])
    /\ pc' = "board"
    /\ UNCHANGED <<args, now_ts, minutes_until_arrival, walk_only_min, walk_option,
                   user_stops, boards, bus_candidates, result, error>>
    /\ UNCHANGED outside_engine

\* lines 106-115: search_nearby_stops(b_lat, b_lng, DEST_STOP_RADIUS_M, 5), exit stop
SearchDestStops == SearchDestStopsAmong(StopLists)

\* one boarding stop, with the building looked up before its departures
BoardStop_with_building_lookup ==
    /\ pc = "board"
    /\ Len(boards) < Len(user_stops)
    /\ LET stop == user_stops[Len(boards) + 1]
       IN /\ \E departures \in Boards :
               /\ boards' = Append(boards, departures)
               /\ bus_candidates' =
                    bus_candidates \o CandidatesOfStop(args, minutes_until_arrival, stop,
                                                       walk_from_stop_min, exit_stop,
                                                       departures)
          /\ calls' = calls \o << [fn |-> "get_building",
                                   building_id |-> args.destination_building_id],
                                  [fn |-> "get_departures", stop_id |-> stop[1]] >>
    /\ UNCHANGED <<args, pc, now_ts, minutes_until_arrival, walk_only_min, walk_option,
                   user_stops, dest_stops, exit_stop, walk_from_stop_min, result, error>>
    /\ UNCHANGED outside_engine

\* lines 120-155, one boarding stop: get_departures(stop_id) and its candidates
BoardStop ==
    /\ pc = "board"
    /\ Len(boards) < Len(user_stops)
    /\ LET stop == user_stops[Len(boards) + 1]
       IN /\ \E departures \in Boards :
               /\ boards' = Append(boards, departures)
               /\ bus_candidates' =
                    bus_candidates \o CandidatesOfStop(args, minutes_until_arrival, stop,
                                                       walk_from_stop_min, exit_stop,
                                                       departures)
          /\ calls' = Append(calls, [fn |-> "get_departures", stop_id |-> stop[1]])
    /\ UNCHANGED <<args, pc, now_ts, minutes_until_arrival, walk_only_min, walk_option,
                   user_stops, dest_stops, exit_stop, walk_from_stop_min, result, error>>
    /\ UNCHANGED outside_engine

\* lines 157-164: rank and return
Return ==
    /\ pc = "board"
    /\ Len(boards) = Len(user_stops)
    /\ result' = Some(RankOptions(bus_candidates, walk_option, args.max_options))
    /\ pc' = "done"
    /\ UNCHANGED <<args, now_ts, minutes_until_arrival, walk_only_min, walk_option,
                   user_stops, dest_stops, exit_stop, walk_from_stop_min, boards,
                   bus_candidates, calls, error>>
    /\ UNCHANGED outside_engine

Next == RaiseInvalid \/ Enter \/ SearchUserStops \/ SearchDestStops \/ BoardStop \/ Return

Spec == Init /\ [][Next]_vars

----------------------------------------------------------------------------
(* Properties *)

Done == pc = "done"
Options == IF IsNone(result) THEN <<>> ELSE Get(result)
Budget == minutes_until_arrival - args.buffer_minutes
HasType(t) == \E i \in 1..Len(Options) : Options[i].type = t
Parsable == args.arrive_by_iso.form # "garbage"

RECURSIVE SumDurations(_)
SumDurations(steps) ==
    IF Len(steps) = 0 THEN 0
    ELSE Head(steps).duration_minutes + SumDurations(Tail(steps))

\* C1: every returned option, WALK or BUS, has an un-rounded total travel time of
\* at most minutes_until_arrival - buffer_minutes.
C1_OptionsWithinBudget ==
    Done =>
      \A i \in 1..Len(Options) :
         IF Options[i].type = "WALK"
         THEN walk_only_min <= Budget
         ELSE \E k \in 1..Len(bus_candidates) :
                 /\ bus_candidates[k][2] = Options[i]
                 /\ bus_candidates[k][1] <= Budget

\* C2: when the walk time exceeds the minutes left until the deadline, no WALK
\* option is returned.
C2_NoWalkWhenUnreachable ==
    (Done /\ walk_only_min > minutes_until_arrival) => ~HasType("WALK")

\* C3: for max_options in 1..10 the returned list has at most max_options entries.
C3_LengthAtMostMaxOptions ==
    (Done /\ args.max_options \in 1..10) => Len(Options) <= args.max_options

\* C3 witness: more options were available than max_options and the list is full
C3_Witness ==
    /\ Done
    /\ Len(bus_candidates) + Len(walk_option) > args.max_options
    /\ Len(Options) = args.max_options

\* C4: the returned list is sorted by (eta_minutes, summary), WALK and BUS mixed.
C4_SortedByEtaThenSummary ==
    Done =>
      \A i \in 1..(Len(Options) - 1) :
         KeyLeq(<<Options[i].eta_minutes, Options[i].summary>>,
                <<Options[i + 1].eta_minutes, Options[i + 1].summary>>)

\* C4 witness: a WALK option ahead of a BUS option, and two options of equal
\* eta_minutes in the order of their summaries
C4_Witness ==
    /\ Done
    /\ \E i \in 1..(Len(Options) - 1) :
          Options[i].type = "WALK" /\ Options[i + 1].type = "BUS"
    /\ \E i \in 1..(Len(Options) - 1) :
          /\ Options[i].eta_minutes = Options[i + 1].eta_minutes
          /\ StrLess(Options[i].summary, Options[i + 1].summary)

\* C5: an unparsable arrive_by_iso ends the call with ValueError
\* ("invalid_arrive_by"), no list is returned and no provider was invoked.
C5_InvalidDeadlineRaisesFirst ==
    (~Parsable /\ pc # "call") =>
      /\ pc = "raised"
      /\ error = Some("invalid_arrive_by")
      /\ IsNone(result)
      /\ calls = <<>>

\* C5 witness: the call has raised
C5_Witness == ~Parsable /\ pc = "raised" /\ ~IsNone(error)

StepTypes(o) == [k \in 1..Len(o.steps) |-> o.steps[k].type]
BusStepTypes == <<"WALK_TO_STOP", "WAIT", "RIDE", "WALK_TO_DEST">>

\* the departures option o can have been built from: those of the board of its
\* boarding stop whose expected_mins gives the option's WAIT
SourceDepartures(o) ==
    { d \in DepUniverse :
        \E i \in 1..Len(boards) :
           /\ user_stops[i][1] = o.steps[1].stop_id
           /\ \E j \in 1..Len(boards[i]) : boards[i][j] = d
           /\ LET walk_to_stop_min ==
                    (Abs(user_stops[i][3] - args.lat) * 10 * TicksPerMinute)
                       \div (Max2(1, args.walking_speed_mps) * 60)
                  expected == IF IsNone(d.expected_mins) THEN 0
                              ELSE Minutes(Get(d.expected_mins))
              IN o.steps[2].duration_minutes
                   = Round1(Max2(0, expected - walk_to_stop_min)) }

\* C6 as claimed: every returned BUS option has the four steps WALK_TO_STOP, WAIT,
\* RIDE, WALK_TO_DEST in this order and its RIDE step carries the route and the
\* headsign of the departure it was built from.
C6_RideCarriesDepartureFields ==
    Done =>
      \A i \in 1..Len(Options) :
         Options[i].type = "BUS" =>
            /\ StepTypes(Options[i]) = BusStepTypes
            /\ \E d \in SourceDepartures(Options[i]) :
                  /\ d.route = Some(Options[i].steps[3].route)
                  /\ d.headsign = Some(Options[i].steps[3].headsign)

\* C6 as amended: the four steps in this order, and the RIDE step carries the
\* route and headsign of its departure after normalisation: a missing value is
\* the empty string and surrounding blanks are removed.
C6_RideCarriesNormalizedFields ==
    Done =>
      \A i \in 1..Len(Options) :
         Options[i].type = "BUS" =>
            /\ StepTypes(Options[i]) = BusStepTypes
            /\ \E d \in SourceDepartures(Options[i]) :
                  /\ Options[i].steps[3].route
                       = Strip(IF IsNone(d.route) THEN <<>> ELSE Get(d.route))
                  /\ Options[i].steps[3].headsign
                       = Strip(IF IsNone(d.headsign) THEN <<>> ELSE Get(d.headsign))

\* C6 witness: a returned BUS option whose route differs from the raw route of
\* every departure of its board
C6_Witness ==
    /\ Done
    /\ \E i \in 1..Len(Options) :
          /\ Options[i].type = "BUS"
          /\ Options[i].steps[3].route = <<53>>
          /\ \A d \in SourceDepartures(Options[i]) : d.route # Some(<<53>>)

\* C7: with no stops from either query the result is exactly the WALK option
\* when the walk fits the budget and the empty list otherwise, and nothing is
\* raised.
C7_NoStopsWalkOrEmpty ==
    (Parsable /\ pc \in {"done", "raised"} /\ user_stops = <<>> /\ dest_stops = <<>>) =>
      /\ Done
      /\ IsNone(error)
      /\ IF walk_only_min <= Budget
         THEN Len(Options) = 1 /\ Options[1].type = "WALK"
         ELSE Options = <<>>

C9_StepsSumToEta ==
    Done =>
      \A i \in 1..Len(Options) : SumDurations(Options[i].steps) = Options[i].eta_minutes

\* C9 as amended: a WALK option has one step whose duration_minutes equals
\* eta_minutes; for a BUS option the emitted step durations, each rounded on its
\* own, sum to within 0.2 min of the emitted eta_minutes.
C9_StepsSumNearEta ==
    Done =>
      \A i \in 1..Len(Options) :
         IF Options[i].type = "WALK"
         THEN /\ Len(Options[i].steps) = 1
              /\ Options[i].steps[1].duration_minutes = Options[i].eta_minutes
         ELSE Abs(SumDurations(Options[i].steps) - Options[i].eta_minutes) <= 2

\* C9 witness: a WALK option beside a BUS option whose rounded steps do not sum
\* to its eta_minutes
C9_Witness ==
    /\ Done
    /\ HasType("WALK")
    /\ \E i \in 1..Len(Options) :
          /\ Options[i].type = "BUS"
          /\ SumDurations(Options[i].steps) # Options[i].eta_minutes

\* C10: eta_minutes, depart_in_minutes and every step's duration_minutes of
\* every returned option are >= 0.
C10_NonNegativeTimes ==
    Done =>
      \A i \in 1..Len(Options) :
         /\ Options[i].eta_minutes >= 0
         /\ Options[i].depart_in_minutes >= 0
         /\ \A k \in 1..Len(Options[i].steps) : Options[i].steps[k].duration_minutes >= 0

\* C10 witness: a BUS option of a departure with negative expected_mins, and a
\* WALK option whose depart_in_minutes was floored at 0
C10_Witness ==
    /\ Done
    /\ \E i \in 1..Len(Options) :
          /\ Options[i].type = "BUS"
          /\ \E d \in SourceDepartures(Options[i]) :
                ~IsNone(d.expected_mins) /\ Get(d.expected_mins) < 0
    /\ \E i \in 1..Len(Options) :
          /\ Options[i].type = "WALK"
          /\ minutes_until_arrival - walk_only_min - args.buffer_minutes < 0
          /\ Options[i].depart_in_minutes = 0

\* the legs of a ride boarding at user_stops[i], recomputed from the call's inputs
WalkToStopMin(i) ==
    _walk_minutes(haversine_distance_m(args.lat, args.lng,
                                       user_stops[i][3], user_stops[i][4]),
                  Max2(1, args.walking_speed_mps))
RideMin(i) ==
    _ride_minutes_heuristic(
        IF IsNone(exit_stop)
        THEN haversine_distance_m(user_stops[i][3], user_stops[i][4],
                                  args.destination_lat, args.destination_lng)
        ELSE haversine_distance_m(user_stops[i][3], user_stops[i][4],
                                  Get(exit_stop)[3], Get(exit_stop)[4]))
WaitOf(i, d) == Max2(0, Minutes(ExpectedMins(d)) - WalkToStopMin(i))
TotalOf(i, d) == WalkToStopMin(i) + WaitOf(i, d) + RideMin(i) + walk_from_stop_min

\* a BUS candidate built from departure d of the board of user_stops[i], waiting
\* max(0, expected_mins - walk_to_stop_minutes)
CandidateFrom(i, d) ==
    \E k \in 1..Len(bus_candidates) :
       LET o == bus_candidates[k][2]
       IN /\ bus_candidates[k][1] = TotalOf(i, d)
          /\ o.type = "BUS"
          /\ o.steps[1].stop_id = user_stops[i][1]
          /\ o.steps[2].duration_minutes = Round1(WaitOf(i, d))
          /\ o.steps[3].route = Strip(OrEmpty(d.route))
          /\ o.steps[3].headsign = Strip(OrEmpty(d.headsign))

\* C20: every departure of every boarding stop is given the wait
\* max(0, expected_mins - walk_to_stop_minutes); one due before the rider reaches
\* the stop is not skipped: it waits 0 and is a BUS candidate whenever
\* walk_to_stop + 0 + ride + walk_from_stop fits the budget.
C20_MissedDepartureWaitsZero ==
    Done =>
      \A i \in 1..Len(boards) : \A j \in 1..Len(boards[i]) :
         TotalOf(i, boards[i][j]) <= Budget => CandidateFrom(i, boards[i][j])

\* C20 witness: a departure due before the rider can reach its stop, fitting the
\* budget, is among the returned options with a WAIT of 0
C20_Witness ==
    /\ Done
    /\ \E i \in 1..Len(boards) : \E j \in 1..Len(boards[i]) :
          /\ Minutes(ExpectedMins(boards[i][j])) < WalkToStopMin(i)
          /\ TotalOf(i, boards[i][j]) <= Budget
          /\ \E n \in 1..Len(Options) :
                /\ Options[n].type = "BUS"
                /\ Options[n].steps[1].stop_id = user_stops[i][1]
                /\ Options[n].steps[2].duration_minutes = 0
                /\ Options[n].steps[3].route = Strip(OrEmpty(boards[i][j].route))

----------------------------------------------------------------------------
(* Repeated calls of compute_recommendations against providers that return *)
(* the same data on every call                                             *)

\* most calls made in one session
MaxCalls == 3

\* what the injected providers answer: the stop lists of the two locator
\* queries and the departure board of every stop
StopIds == { s[1] : s \in StopUniverse }
FullBoards == { b \in Boards : Len(b) = Min2(MaxDeps, Cardinality(DepUniverse)) }
Providers == [user : StopLists, dest : StopLists, board : [StopIds -> FullBoards]]

\* arguments of the first call: now injected, deadline 400 s ahead
RepeatArgs ==
    { a \in Args : /\ a.now = Some(0)
                   /\ a.arrive_by_iso.form = "offset"
                   /\ a.walking_speed_mps = 15
                   /\ a.buffer_minutes = 0 }

\* arguments of a call made in between: another max_options, another speed
OtherArgs(a) ==
    [a EXCEPT !.max_options = (a.max_options % MaxOptionsIn) + 1,
              !.walking_speed_mps = 0]

FirstArgs == IF IsNone(session.first) THEN args ELSE Get(session.first).args

RepeatInit ==
    /\ args \in RepeatArgs
    /\ pc = "call"
    /\ now_ts = 0
    /\ minutes_until_arrival = 0
    /\ walk_only_min = 0
    /\ walk_option = None
    /\ user_stops = <<>>
    /\ dest_stops = <<>>
    /\ exit_stop = None
    /\ walk_from_stop_min = 0
    /\ boards = <<>>
    /\ bus_candidates = <<>>
    /\ calls = <<>>
    /\ result = None
    /\ error = None
    /\ session \in { [provider |-> p, first |-> None, ncalls |-> 1, between |-> FALSE] :
                     p \in Providers }
    /\ http = Unused
    /\ mtd = Unused
    /\ stops_q = Unused
    /\ sched = Unused
    /\ geo = Unused

\* the locator and the departure lookup answering from the session's data
RepeatSearchUserStops == SearchUserStops /\ user_stops' = session.provider.user
RepeatSearchDestStops == SearchDestStops /\ dest_stops' = session.provider.dest
RepeatBoardStop ==
    /\ BoardStop
    /\ boards' = Append(boards, session.provider.board[user_stops[Len(boards) + 1][1]])

\* a later call that finds the candidate list of the call before it
CallAgain_stale ==
    /\ pc = "done"
    /\ session.ncalls < MaxCalls
    /\ ~(session.ncalls > 1 /\ args = FirstArgs)
    /\ \E a \in {FirstArgs, OtherArgs(FirstArgs)} : args' = a
    /\ session' = [session EXCEPT
                     !.first = IF session.ncalls = 1
                               THEN Some([args |-> args, result |-> Get(result)]) ELSE @,
                     !.ncalls = @ + 1,
                     !.between = @ \/ (session.ncalls > 1 /\ args # FirstArgs)]
    /\ pc' = "call"
    /\ now_ts' = 0
    /\ minutes_until_arrival' = 0
    /\ walk_only_min' = 0
    /\ walk_option' = None
    /\ user_stops' = <<>>
    /\ dest_stops' = <<>>
    /\ exit_stop' = None
    /\ walk_from_stop_min' = 0
    /\ boards' = <<>>
    /\ calls' = <<>>
    /\ result' = None
    /\ error' = None
    /\ UNCHANGED <<bus_candidates, http, mtd, stops_q, sched, geo>>

\* the next call of the session, with the arguments of the first call or with
\* others: every local of the function is bound afresh (bus_candidates = [] on
\* line 117), nothing is read from a module-level or default-argument object
CallAgain ==
    /\ pc = "done"
    /\ session.ncalls < MaxCalls
    /\ ~(session.ncalls > 1 /\ args = FirstArgs)
    /\ \E a \in {FirstArgs, OtherArgs(FirstArgs)} : args' = a
    /\ session' = [session EXCEPT
                     !.first = IF session.ncalls = 1
                               THEN Some([args |-> args, result |-> Get(result)]) ELSE @,
                     !.ncalls = @ + 1,
                     !.between = @ \/ (session.ncalls > 1 /\ args # FirstArgs)]
    /\ pc' = "call"
    /\ now_ts' = 0
    /\ minutes_until_arrival' = 0
    /\ walk_only_min' = 0
    /\ walk_option' = None
    /\ user_stops' = <<>>
    /\ dest_stops' = <<>>
    /\ exit_stop' = None
    /\ walk_from_stop_min' = 0
    /\ boards' = <<>>
    /\ bus_candidates' = <<>>
    /\ calls' = <<>>
    /\ result' = None
    /\ error' = None
    /\ UNCHANGED <<http, mtd, stops_q, sched, geo>>

RepeatNext ==
    Enter \/ RepeatSearchUserStops \/ RepeatSearchDestStops \/ RepeatBoardStop
    \/ Return \/ CallAgain

RepeatSpec == RepeatInit /\ [][RepeatNext]_vars

\* C11: a call with the arguments and the injected now of the first call of the
\* session, the providers returning the same data, returns the list the first
\* call returned (same options, same order, same field values), whatever calls
\* were made in between.
C11_SameInputsSameOptions ==
    (Done /\ ~IsNone(session.first) /\ args = Get(session.first).args) =>
       result = Some(Get(session.first).result)

\* C11 witness: the first call returned a WALK and a BUS option, a call with
\* other arguments followed, and the call with the first arguments has returned
C11_Witness ==
    /\ Done
    /\ ~IsNone(session.first)
    /\ session.between
    /\ args = Get(session.first).args
    /\ HasType("WALK") /\ HasType("BUS")

----------------------------------------------------------------------------
(* POST /recommendation (main.py, post_recommendation): destination        *)
(* resolution, the engine called through the provider wrappers, the        *)
(* mapping of its exceptions, and the LLM ranking of its options           *)

\* the buildings table: building_id -> (lat, lng, name)
Directory == [siebel |-> <<24, 0, <<90>>>>]
BuildingIds == {"siebel", "nowhere", ""}

\* get_building / _get_building_for_recommendation
get_building(building_id) ==
    IF building_id \in DOMAIN Directory THEN Some(Directory[building_id]) ELSE None

\* "Destination", the name of a custom destination sent without one
TxtNoName == <<68, 101, 115, 116>>

\* response details; str(e) of the exceptions met
MsgBuildingNotFound == "Building not found: "
MsgProvideDestination ==
    "Provide destination_building_id or destination_lat and destination_lng."
MsgInvalidArriveBy == "Invalid arrive_by_iso. Use ISO 8601 (e.g. 2026-02-22T15:00:00Z)."
MsgRouteFailed == "Route computation failed. Please try again in a moment."
TxtInvalidArriveBy == "invalid_arrive_by"
TxtBadInt == "invalid literal for int() with base 10: 'DUE'"
TxtNoTable == "no such table: stops"

\* isinstance(e, ValueError): int() and the engine raise ValueError, sqlite3
\* raises OperationalError
IsValueError(msg) == msg \in {TxtInvalidArriveBy, TxtBadInt}

\* "invalid_arrive_by" in str(e): of the texts above only the engine's own has it
MentionsInvalidArriveBy(msg) == msg = TxtInvalidArriveBy

\* request bodies: destination_lat and destination_lng both given, with and
\* without a destination_name, and bodies with neither or only one of them
Bodies ==
    [destination_building_id : {"siebel", "nowhere"},
     destination_lat : {Some(24)},
     destination_lng : {Some(0)},
     destination_name : {None, Some(<<90>>)},
     arrive_by_iso : { a \in ArriveByInputs : a.form \in {"offset", "garbage"} },
     max_options : {MaxOptionsIn}]
    \cup
    [destination_building_id : BuildingIds,
     destination_lat : {None, Some(24)},
     destination_lng : {None},
     destination_name : {None},
     arrive_by_iso : { a \in ArriveByInputs : a.form \in {"offset", "garbage"} },
     max_options : {MaxOptionsIn}]

\* the deployment: whether the stops database can be queried, whether an MTD
\* client is configured and what it does, whether a Claude key is configured
Environments ==
    [locator : {"ok", "raises"},
     mtd : {"ok", "unconfigured", "raises", "malformed"},
     claude_key : BOOLEAN]

\* RecommendationOption(**o)
RecommendationOption(o) ==
    [type |-> o.type, summary |-> o.summary, eta_minutes |-> o.eta_minutes,
     depart_in_minutes |-> o.depart_in_minutes, steps |-> o.steps,
     ai_explanation |-> None, ai_ranked |-> FALSE]

OptionObjects(options) == [i \in 1..Len(options) |-> RecommendationOption(options[i])]

\* JSON values of "ranked_order": null, a number, a list of integers and strings
JNull == [shape |-> "null", num |-> 0, items |-> <<>>]
JNumber(v) == [shape |-> "number", num |-> v, items |-> <<>>]
JList(items) == [shape |-> "list", num |-> 0, items |-> items]
JInt(i) == <<"int", i>>
JStr == <<"str", 0>>

Identity(n) == [i \in 1..n |-> JInt(i - 1)]
Reversed(n) == [i \in 1..n |-> JInt(n - i)]

\* what the model may put under "ranked_order" for n options
RankedOrders(n) ==
    { JNull, JNumber(7), JList(<<>>),
      JList(Identity(n)), JList(Reversed(n)),
      JList([i \in 1..n |-> JInt(0)]),
      JList(Identity(n) \o <<JInt(0)>>),
      JList([Reversed(n) EXCEPT ![1] = JInt(n)]),
      JList([Identity(n) EXCEPT ![1] = JInt(-1)]),
      JList([Identity(n) EXCEPT ![n] = JInt(-n - 1)]),
      JList([Reversed(n) EXCEPT ![n] = JStr]) }

TxtExplanation == "Bus 5 is fastest"

\* what the Claude call gives: an API error, text that is not JSON, JSON that is
\* not an object, or an object with or without the two keys
AiReplies(n) ==
    { [kind |-> k, ranked_order |-> None, ai_explanation |-> None] :
        k \in {"api_error", "not_json", "not_object"} }
    \cup [kind : {"object"},
          ranked_order : {None} \cup { Some(r) : r \in RankedOrders(n) },
          ai_explanation : {None, Some(TxtExplanation)}]

\* ClaudeClient.get_best_route: any exception gives the identity order and ""
get_best_route(reply, n) ==
    IF reply.kind # "object"
    THEN [ranked_order |-> JList(Identity(n)), ai_explanation |-> ""]
    ELSE [ranked_order |-> IF IsNone(reply.ranked_order) THEN JList(Identity(n))
                           ELSE Get(reply.ranked_order),
          ai_explanation |-> IF IsNone(reply.ai_explanation) THEN ""
                             ELSE Get(reply.ai_explanation)]

\* bool(ranked_order)
Truthy(j) ==
    CASE j.shape = "null" -> FALSE
      [] j.shape = "number" -> j.num # 0
      [] OTHER -> Len(j.items) > 0

\* [option_objects[i] for i in ranked_order if i < len(option_objects)]: a str
\* item raises TypeError at the comparison, an index below -len raises IndexError
RECURSIVE Reorder(_, _, _)
Reorder(objs, items, out) ==
    IF Len(items) = 0 THEN [raised |-> FALSE, out |-> out]
    ELSE LET it == Head(items)
             n == Len(objs)
         IN IF it[1] = "str" THEN [raised |-> TRUE, out |-> out]
            ELSE IF ~(it[2] < n) THEN Reorder(objs, Tail(items), out)
            ELSE IF it[2] < -n THEN [raised |-> TRUE, out |-> out]
            ELSE Reorder(objs, Tail(items),
                         Append(out, objs[IF it[2] >= 0 THEN it[2] + 1
                                          ELSE n + it[2] + 1]))

\* lines 539-542: the first option annotated
Annotate(objs, ai_explanation) ==
    IF ai_explanation # "" /\ Len(objs) > 0
    THEN [objs EXCEPT ![1] = [@ EXCEPT !.ai_explanation = Some(ai_explanation),
                                       !.ai_ranked = TRUE]]
    ELSE objs

\* the list left as far as the reordering got when it raised
ApplyRanking_in_place(option_objects, ranked_order, ai_explanation) ==
    IF Truthy(ranked_order) /\ ranked_order.shape = "number"
    THEN [raised |-> TRUE, options |-> option_objects]
    ELSE LET r == IF Truthy(ranked_order)
                     /\ Len(ranked_order.items) = Len(option_objects)
                  THEN Reorder(option_objects, ranked_order.items, <<>>)
                  ELSE [raised |-> FALSE, out |-> option_objects]
         IN IF r.raised THEN [raised |-> TRUE, options |-> r.out]
            ELSE [raised |-> FALSE, options |-> Annotate(r.out, ai_explanation)]

\* lines 535-544: option_objects after the ranking is applied inside the try;
\* an exception leaves the name bound to the list it had
ApplyRanking(option_objects, ranked_order, ai_explanation) ==
    IF Truthy(ranked_order) /\ ranked_order.shape = "number"
    THEN [raised |-> TRUE, options |-> option_objects]
    ELSE LET r == IF Truthy(ranked_order)
                     /\ Len(ranked_order.items) = Len(option_objects)
                  THEN Reorder(option_objects, ranked_order.items, <<>>)
                  ELSE [raised |-> FALSE, out |-> option_objects]
         IN IF r.raised THEN [raised |-> TRUE, options |-> option_objects]
            ELSE [raised |-> FALSE, options |-> Annotate(r.out, ai_explanation)]

HttpInit ==
    /\ args = Unused
    /\ pc = "idle"
    /\ now_ts = 0
    /\ minutes_until_arrival = 0
    /\ walk_only_min = 0
    /\ walk_option = None
    /\ user_stops = <<>>
    /\ dest_stops = <<>>
    /\ exit_stop = None
    /\ walk_from_stop_min = 0
    /\ boards = <<>>
    /\ bus_candidates = <<>>
    /\ calls = <<>>
    /\ result = None
    /\ error = None
    /\ session = Unused
    /\ http \in { [body |-> b, env |-> e, pc |-> "recv", lookups |-> 0,
                   option_objects |-> <<>>, ai_failed |-> "no",
                   response |-> None] : b \in Bodies, e \in Environments }
    /\ mtd = Unused
    /\ stops_q = Unused
    /\ sched = Unused
    /\ geo = Unused

not_http == <<session, mtd, stops_q, sched, geo>>

engine_locals == <<now_ts, minutes_until_arrival, walk_only_min, walk_option,
                   user_stops, dest_stops, exit_stop, walk_from_stop_min, boards,
                   bus_candidates, calls, result, error>>

Custom == ~IsNone(http.body.destination_lat) /\ ~IsNone(http.body.destination_lng)

Respond(status, detail, options) ==
    [http EXCEPT !.pc = "sent",
                 !.response = Some([status |-> status, detail |-> detail,
                                    options |-> options])]

\* the keyword arguments of lines 488-503; walking_speed_mps and buffer_minutes
\* are the request's 1.5 m/s and 0
EngineArgs(building_id, dest_lat, dest_lng, dest_name) ==
    [lat |-> 0, lng |-> 0,
     destination_building_id |-> building_id,
     destination_lat |-> dest_lat, destination_lng |-> dest_lng,
     destination_name |-> dest_name,
     arrive_by_iso |-> http.body.arrive_by_iso,
     walking_speed_mps |-> 15,
     buffer_minutes |-> 0,
     max_options |-> http.body.max_options,
     now |-> None]

\* the directory looked up before the coordinates are examined
ResolveDestination_lookup_first ==
    /\ http.pc = "recv"
    /\ LET b == http.body
           building == get_building(b.destination_building_id)
       IN IF ~IsNone(building)
          THEN /\ args' = EngineArgs(b.destination_building_id, Get(building)[1],
                                     Get(building)[2], Get(building)[3])
               /\ pc' = "call"
               /\ http' = [http EXCEPT !.pc = "engine", !.lookups = @ + 1]
          ELSE IF Custom
          THEN /\ args' = EngineArgs("custom", Get(b.destination_lat),
                                     Get(b.destination_lng),
                                     IF Len(OrEmpty(b.destination_name)) = 0
                                     THEN TxtNoName ELSE Get(b.destination_name))
               /\ pc' = "call"
               /\ http' = [http EXCEPT !.pc = "engine", !.lookups = @ + 1]
          ELSE /\ http' = [Respond(400, <<MsgProvideDestination>>, <<>>)
                             EXCEPT !.lookups = @ + 1]
               /\ UNCHANGED <<args, pc>>
    /\ UNCHANGED engine_locals
    /\ UNCHANGED not_http

\* lines 470-503: the destination from the coordinates or from the directory,
\* 400 when neither gives one, else compute_recommendations is entered
ResolveDestination ==
    /\ http.pc = "recv"
    /\ LET b == http.body
       IN IF Custom
          THEN /\ args' = EngineArgs("custom", Get(b.destination_lat),
                                     Get(b.destination_lng),
                                     IF Len(OrEmpty(b.destination_name)) = 0
                                     THEN TxtNoName ELSE Get(b.destination_name))
               /\ pc' = "call"
               /\ http' = [http EXCEPT !.pc = "engine"]
          ELSE IF b.destination_building_id # ""
          THEN LET building == get_building(b.destination_building_id)
               IN IF IsNone(building)
                  THEN /\ http' = [Respond(400, <<MsgBuildingNotFound,
                                                  b.destination_building_id, ".">>,
                                           <<>>)
                                     EXCEPT !.lookups = @ + 1]
                       /\ UNCHANGED <<args, pc>>
                  ELSE /\ args' = EngineArgs(b.destination_building_id,
                                             Get(building)[1], Get(building)[2],
                                             Get(building)[3])
                       /\ pc' = "call"
                       /\ http' = [http EXCEPT !.pc = "engine", !.lookups = @ + 1]
          ELSE /\ http' = Respond(400, <<MsgProvideDestination>>, <<>>)
               /\ UNCHANGED <<args, pc>>
    /\ UNCHANGED engine_locals
    /\ UNCHANGED not_http

\* _search_nearby_for_recommendation, lines 451-453: the query result as it is
LocatorAnswers == http.env.locator = "ok" /\ SearchUserStops

\* the same wrapper when search_nearby raises (a stops database without its
\* table): nothing catches it, line 105 of the engine raises
LocatorRaises ==
    /\ pc = "search_user"
    /\ http.env.locator = "raises"
    /\ pc' = "raised"
    /\ error' = Some(TxtNoTable)
    /\ calls' = Append(calls, [fn |-> "search_nearby_stops", lat |-> args.lat,
                               lng |-> args.lng, radius_m |-> USER_STOP_RADIUS_M,
                               limit |-> 10])
    /\ UNCHANGED <<args, now_ts, minutes_until_arrival, walk_only_min, walk_option,
                   user_stops, dest_stops, exit_stop, walk_from_stop_min, boards,
                   bus_candidates, result>>
    /\ UNCHANGED outside_engine

\* _get_departures_for_recommendation, lines 456-464: [] without a client or
\* when the client raises, else the departures it returns
DeparturesAnswer ==
    /\ http.env.mtd # "malformed"
    /\ BoardStop
    /\ http.env.mtd \in {"unconfigured", "raises"} => boards' = Append(boards, <<>>)

\* a board with a departure whose expected_mins is the text "DUE": int() on
\* line 133 of the engine raises ValueError
DeparturesMalformed ==
    /\ pc = "board"
    /\ Len(boards) < Len(user_stops)
    /\ http.env.mtd = "malformed"
    /\ pc' = "raised"
    /\ error' = Some(TxtBadInt)
    /\ calls' = Append(calls, [fn |-> "get_departures",
                               stop_id |-> user_stops[Len(boards) + 1][1]])
    /\ UNCHANGED <<args, now_ts, minutes_until_arrival, walk_only_min, walk_option,
                   user_stops, dest_stops, exit_stop, walk_from_stop_min, boards,
                   bus_candidates, result>>
    /\ UNCHANGED outside_engine

\* lines 504-516: the engine's exception answered
EngineFailed ==
    /\ http.pc = "engine"
    /\ pc = "raised"
    /\ LET msg == Get(error)
       IN http' = IF IsValueError(msg)
                  THEN IF MentionsInvalidArriveBy(msg)
                       THEN Respond(400, <<MsgInvalidArriveBy>>, <<>>)
                       ELSE Respond(400, <<msg>>, <<>>)
                  ELSE Respond(503, <<MsgRouteFailed>>, <<>>)
    /\ UNCHANGED engine_vars
    /\ UNCHANGED not_http

\* lines 517-521 and 546: the options as objects, answered at once without a
\* Claude key or without options
EngineReturned ==
    /\ http.pc = "engine"
    /\ pc = "done"
    /\ LET objs == OptionObjects(Get(result))
       IN http' = IF http.env.claude_key /\ Len(objs) > 0
                  THEN [http EXCEPT !.pc = "ai", !.option_objects = objs]
                  ELSE [Respond(200, <<>>, objs) EXCEPT !.option_objects = objs]
    /\ UNCHANGED engine_vars
    /\ UNCHANGED not_http

\* lines 523-524 raise (anthropic missing, client refused): except, line 546
AiClientFails ==
    /\ http.pc = "ai"
    /\ http' = [Respond(200, <<>>, http.option_objects) EXCEPT !.ai_failed = "client"]
    /\ UNCHANGED engine_vars
    /\ UNCHANGED not_http

\* lines 525-546: the ranking asked for and applied
AiRanks ==
    /\ http.pc = "ai"
    /\ \E reply \in AiReplies(Len(http.option_objects)) :
         LET ai_result == get_best_route(reply, Len(http.option_objects))
             applied == ApplyRanking(http.option_objects, ai_result.ranked_order,
                                     ai_result.ai_explanation)
         IN http' = [Respond(200, <<>>, applied.options)
                       EXCEPT !.ai_failed = IF reply.kind # "object" THEN "call"
                                            ELSE IF applied.raised THEN "apply"
                                            ELSE "no"]
    /\ UNCHANGED engine_vars
    /\ UNCHANGED not_http

HttpNext ==
    ResolveDestination \/ RaiseInvalid \/ Enter \/ LocatorAnswers \/ LocatorRaises
    \/ SearchDestStops \/ DeparturesAnswer \/ DeparturesMalformed \/ Return
    \/ EngineFailed \/ EngineReturned \/ AiClientFails \/ AiRanks

HttpSpec == HttpInit /\ [][HttpNext]_vars

Sent == http.pc = "sent"
Response == Get(http.response)
EngineEntered == pc # "idle"
DetailHas(text) == \E k \in 1..Len(Response.detail) : Response.detail[k] = text

\* C12: when a data provider fails during POST /recommendation (the stop locator
\* or the departure board raises, or no transit client is configured) the engine
\* is handed an empty list, no exception reaches it and the request answers 200.
C12_ProviderFailureAnswers200 ==
    (Sent /\ EngineEntered /\ Parsable
          /\ (http.env.locator = "raises" \/ http.env.mtd \in {"unconfigured", "raises"}))
      => (Response.status = 200 /\ IsNone(error))

\* C13: a destination_building_id the directory does not resolve, sent without
\* both coordinates, is answered 400 with a 'not found' detail and neither the
\* engine nor a stop or departure provider is invoked; with both coordinates the
\* directory is not consulted.
C13_UnknownBuildingStopsEarly ==
    Sent =>
      /\ (~Custom /\ http.body.destination_building_id # ""
                  /\ IsNone(get_building(http.body.destination_building_id)))
           => /\ Response.status = 400
              /\ DetailHas(MsgBuildingNotFound)
              /\ ~EngineEntered
              /\ calls = <<>>
      /\ Custom => http.lookups = 0

\* C13 witness: an unknown building sent without coordinates was looked up once
\* and answered 400
C13_Witness ==
    /\ Sent
    /\ ~Custom
    /\ http.body.destination_building_id = "nowhere"
    /\ http.lookups = 1
    /\ Response.status = 400

\* C14: when the LLM step fails (constructing the client, the ranking call, or
\* applying its result) the response holds exactly the engine's options in the
\* engine's order, each with ai_explanation null and ai_ranked false, and the
\* request succeeds.
C14_AiFailureLeavesOptions ==
    (Sent /\ http.ai_failed # "no") =>
       /\ Response.status = 200
       /\ Response.options = OptionObjects(Get(result))
       /\ \A i \in 1..Len(Response.options) :
             /\ IsNone(Response.options[i].ai_explanation)
             /\ ~Response.options[i].ai_ranked

\* C14 witness: applying the ranking raised after part of a new order had been
\* read, with two different options to order
C14_Witness ==
    /\ Sent
    /\ http.ai_failed = "apply"
    /\ Len(Response.options) >= 2
    /\ Response.options[1] # Response.options[2]

\* C15: of the engine's failures only the unparsable arrive_by_iso is answered
\* 4xx; any other exception raised while the engine runs is answered 5xx with a
\* fixed generic detail that holds no text of the exception.
C15_OnlyBadDeadlineIs4xx ==
    (Sent /\ pc = "raised") =>
       IF Get(error) = TxtInvalidArriveBy
       THEN Response.status = 400
       ELSE /\ Response.status \in 500..599
            /\ Response.detail = <<MsgRouteFailed>>
            /\ ~DetailHas(Get(error))

----------------------------------------------------------------------------
(* MTDClient.get_departures_by_stop and its _TTLCache (mtd/client.py),     *)
(* called sequentially; the clock is time.monotonic() in whole seconds     *)

DEPARTURES_CACHE_TTL_SECONDS == 60
MTD_RETRY_ATTEMPTS == 3
MTD_RETRY_BASE_DELAY_SECONDS == 1
MTD_RETRY_MAX_DELAY_SECONDS == 8

\* most calls of one run, and the latest time a call starts
MaxMtdCalls == 3
MaxClock == 120

\* (stop_id, minutes) pairs asked for
MtdRequests == { <<"IT", 60>>, <<"IT", 30>>, <<"GEN", 60>> }

\* _cache_key: f"dep:{stop_id}:{minutes}", the text in its three parts
_cache_key(stop_id, minutes) == <<"dep", stop_id, minutes>>

CacheKeys == { _cache_key(r[1], r[2]) : r \in MtdRequests }

\* seconds between calls
Pauses == {20, DEPARTURES_CACHE_TTL_SECONDS}

\* failed attempts of one fetch: none, one, all
FailCounts == {0, 1, MTD_RETRY_ATTEMPTS}

\* the entry of a fresh key kept one second longer: expired only after expires_at
CacheGet_late(store, key, t) ==
    IF IsNone(store[key]) THEN [value |-> None, store |-> store]
    ELSE IF t > Get(store[key]).expires_at
         THEN [value |-> None, store |-> [store EXCEPT ![key] = None]]
         ELSE [value |-> Some(Get(store[key]).value), store |-> store]

\* _TTLCache.get at monotonic time t: the value, and the store after the call (an
\* expired entry is deleted)
CacheGet(store, key, t) ==
    IF IsNone(store[key]) THEN [value |-> None, store |-> store]
    ELSE IF t >= Get(store[key]).expires_at
         THEN [value |-> None, store |-> [store EXCEPT ![key] = None]]
         ELSE [value |-> Some(Get(store[key]).value), store |-> store]

\* _TTLCache.set at monotonic time t
CacheSet(store, key, value, t) ==
    [store EXCEPT ![key] = Some([value |-> value,
                                 expires_at |-> t + DEPARTURES_CACHE_TTL_SECONDS])]

\* time.sleep between attempts: min(base * 2**attempt, max) after each failed
\* attempt but the last
RECURSIVE Pow2(_)
Pow2(n) == IF n = 0 THEN 1 ELSE 2 * Pow2(n - 1)
RECURSIVE SleptAfter(_)
SleptAfter(failed) ==
    IF failed = 0 THEN 0
    ELSE SleptAfter(failed - 1)
         + (IF failed - 1 < MTD_RETRY_ATTEMPTS - 1
            THEN Min2(MTD_RETRY_BASE_DELAY_SECONDS * Pow2(failed - 1),
                      MTD_RETRY_MAX_DELAY_SECONDS)
            ELSE 0)

MtdInit ==
    /\ args = Unused
    /\ pc = "idle"
    /\ now_ts = 0
    /\ minutes_until_arrival = 0
    /\ walk_only_min = 0
    /\ walk_option = None
    /\ user_stops = <<>>
    /\ dest_stops = <<>>
    /\ exit_stop = None
    /\ walk_from_stop_min = 0
    /\ boards = <<>>
    /\ bus_candidates = <<>>
    /\ calls = <<>>
    /\ result = None
    /\ error = None
    /\ session = Unused
    /\ http = Unused
    /\ mtd = [clock |-> 0,
              store |-> [k \in CacheKeys |-> None],
              fetched |-> 0,
              log |-> <<>>]
    /\ stops_q = Unused
    /\ sched = Unused
    /\ geo = Unused

not_mtd == <<session, http, stops_q, sched, geo>>

\* time passes between two calls
TimePasses ==
    /\ Len(mtd.log) < MaxMtdCalls
    /\ \E dt \in Pauses :
         /\ mtd.clock + dt <= MaxClock
         /\ mtd' = [mtd EXCEPT !.clock = @ + dt]
    /\ UNCHANGED engine_vars
    /\ UNCHANGED not_mtd

\* lines 104-112: the key is cached and fresh, the cached value is returned
DeparturesCacheHit ==
    /\ Len(mtd.log) < MaxMtdCalls
    /\ \E r \in MtdRequests :
         LET ckey == _cache_key(r[1], r[2])
             cached == CacheGet(mtd.store, ckey, mtd.clock)
         IN /\ ~IsNone(cached.value)
            /\ mtd' = [mtd EXCEPT
                         !.log = Append(@, [key |-> ckey, at |-> mtd.clock,
                                            requests |-> 0, cached_at |-> None,
                                            returned |-> cached.value])]
    /\ UNCHANGED engine_vars
    /\ UNCHANGED not_mtd

\* lines 104-136: a miss, and an attempt that succeeds: its response (the
\* fetched-th the upstream has served) is cached and returned
DeparturesFetched ==
    /\ Len(mtd.log) < MaxMtdCalls
    /\ \E r \in MtdRequests : \E failed \in FailCounts :
         LET ckey == _cache_key(r[1], r[2])
             cached == CacheGet(mtd.store, ckey, mtd.clock)
             t == mtd.clock + SleptAfter(failed)
             value == mtd.fetched + 1
         IN /\ IsNone(cached.value)
            /\ failed < MTD_RETRY_ATTEMPTS
            /\ mtd' = [clock |-> t,
                       store |-> CacheSet(cached.store, ckey, value, t),
                       fetched |-> value,
                       log |-> Append(mtd.log,
                                      [key |-> ckey, at |-> mtd.clock,
                                       requests |-> failed + 1,
                                       cached_at |-> Some(t),
                                       returned |-> Some(value)])]
    /\ UNCHANGED engine_vars
    /\ UNCHANGED not_mtd

\* lines 104-164: a miss, every attempt fails: RuntimeError, nothing cached
DeparturesUnavailable ==
    /\ Len(mtd.log) < MaxMtdCalls
    /\ \E r \in MtdRequests :
         LET ckey == _cache_key(r[1], r[2])
             cached == CacheGet(mtd.store, ckey, mtd.clock)
         IN /\ IsNone(cached.value)
            /\ mtd' = [mtd EXCEPT
                         !.clock = @ + SleptAfter(MTD_RETRY_ATTEMPTS),
                         !.store = cached.store,
                         !.log = Append(@, [key |-> ckey, at |-> mtd.clock,
                                            requests |-> MTD_RETRY_ATTEMPTS,
                                            cached_at |-> None,
                                            returned |-> None])]
    /\ UNCHANGED engine_vars
    /\ UNCHANGED not_mtd

MtdNext == TimePasses \/ DeparturesCacheHit \/ DeparturesFetched \/ DeparturesUnavailable

MtdSpec == MtdInit /\ [][MtdNext]_vars

\* the earlier calls whose fetch for the key of call j was cached less than
\* DEPARTURES_CACHE_TTL_SECONDS before call j started
FreshFetches(j) ==
    { i \in 1..(j - 1) :
        /\ mtd.log[i].key = mtd.log[j].key
        /\ ~IsNone(mtd.log[i].cached_at)
        /\ mtd.log[j].at - Get(mtd.log[i].cached_at) < DEPARTURES_CACHE_TTL_SECONDS }

Latest(S) == CHOOSE i \in S : \A k \in S : k <= i

\* C16: in a sequence of calls an upstream request is made exactly when no fetch
\* for the same (stop_id, minutes) was cached within the 60 s before the call; a
\* call within the TTL returns the cached value, a call after it is a miss whose
\* expired entry is gone, and other keys do not matter.
C16_RequestIffNotFresh ==
    \A j \in 1..Len(mtd.log) :
       /\ (mtd.log[j].requests > 0) <=> (FreshFetches(j) = {})
       /\ FreshFetches(j) # {} =>
             mtd.log[j].returned = mtd.log[Latest(FreshFetches(j))].returned
       /\ (j = Len(mtd.log) /\ mtd.log[j].requests > 0) =>
             mtd.store[mtd.log[j].key] =
                IF IsNone(mtd.log[j].cached_at) THEN None
                ELSE Some([value |-> Get(mtd.log[j].returned),
                           expires_at |-> Get(mtd.log[j].cached_at)
                                          + DEPARTURES_CACHE_TTL_SECONDS])

\* C16 witness: a key fetched, served from the cache within the TTL, and fetched
\* again by a call made exactly when the TTL had elapsed
C16_Witness ==
    /\ Len(mtd.log) = 3
    /\ mtd.log[1].key = mtd.log[2].key /\ mtd.log[2].key = mtd.log[3].key
    /\ mtd.log[1].requests > 0 /\ ~IsNone(mtd.log[1].cached_at)
    /\ mtd.log[2].requests = 0 /\ mtd.log[2].at > mtd.log[1].at
    /\ mtd.log[3].requests > 0
    /\ mtd.log[3].at = Get(mtd.log[1].cached_at) + DEPARTURES_CACHE_TTL_SECONDS

----------------------------------------------------------------------------
(* stops_repo.search_nearby (data/stops_repo.py).  All points lie on the   *)
(* equator; a longitude is an integer number of thousandths of a degree in *)
(* -180000..180000 and a distance an integer number of millimetres.  On    *)
(* the equator cos(lat) = 1 and the haversine formula gives the arc of the *)
(* shorter way round: sqrt(a) = |sin(dlng/2)|, sqrt(1 - a) = |cos(dlng/2)|.*)

\* millimetres of arc in a thousandth of a degree: EARTH_RADIUS_KM * pi / 180
MmPerMilliDeg == 111195
\* thousandths of a degree in the half turn
HalfTurn == 180 * 1000

\* haversine_distance_km on the equator, in millimetres
equator_distance_mm(lng1, lng2) ==
    LET dlng == Abs(lng2 - lng1)
    IN MmPerMilliDeg * (IF dlng <= HalfTurn THEN dlng ELSE 2 * HalfTurn - dlng)

\* _bbox_delta_deg and the WHERE clause, for lat = 0: lng BETWEEN lng - dlng AND
\* lng + dlng with dlng = (radius_m / 1000) / 111 degrees
InBoundingBox(lng, radius_m, stop_lng) == 111 * Abs(stop_lng - lng) <= radius_m

\* most rows of the stops table, and the largest limit asked for
MaxStops == 3
MaxLimit == 3

\* stops (stop_id, stop_name, lat, lng) on both sides of the 180th meridian
EquatorStops ==
    { <<"S1", "Stop 1", 0, 179986>>, <<"S2", "Stop 2", 0, 179994>>,
      <<"S3", "Stop 3", 0, 179998>>, <<"S4", "Stop 4", 0, -179999>>,
      <<"S5", "Stop 5", 0, -179996>> }

\* the rows of the stops table in the order SELECT yields them
StopTables == ListsOf(EquatorStops, MaxStops)

\* query longitudes, 179.990 and 179.999 degrees east, and radii in metres
QueryLngs == {179990, 179999}
QueryRadii == {500, 1000}

\* lines 39-68
search_nearby(db_exists, table, lat, lng, radius_m, limit) ==
    IF ~db_exists THEN <<>>
    ELSE LET rows == SelectSeq(table, LAMBDA r : InBoundingBox(lng, radius_m, r[4]))
             keyed == [i \in 1..Len(rows) |->
                         << <<equator_distance_mm(lng, rows[i][4]), <<>>>>, rows[i] >>]
             within == SelectSeq(keyed, LAMBDA x : x[1][1] <= radius_m * 1000)
             with_dist == SortByKey(within)
         IN Take([i \in 1..Len(with_dist) |-> with_dist[i][2]], limit)

StopsInit ==
    /\ args = Unused
    /\ pc = "idle"
    /\ now_ts = 0
    /\ minutes_until_arrival = 0
    /\ walk_only_min = 0
    /\ walk_option = None
    /\ user_stops = <<>>
    /\ dest_stops = <<>>
    /\ exit_stop = None
    /\ walk_from_stop_min = 0
    /\ boards = <<>>
    /\ bus_candidates = <<>>
    /\ calls = <<>>
    /\ result = None
    /\ error = None
    /\ session = Unused
    /\ http = Unused
    /\ mtd = Unused
    /\ stops_q \in [db_exists : BOOLEAN, table : StopTables, lat : {0},
                    lng : QueryLngs, radius_m : QueryRadii, limit : 1..MaxLimit,
                    out : {None}]
    /\ sched = Unused
    /\ geo = Unused

\* one call of search_nearby
SearchNearby ==
    /\ IsNone(stops_q.out)
    /\ stops_q' = [stops_q EXCEPT
                     !.out = Some(search_nearby(stops_q.db_exists, stops_q.table,
                                                stops_q.lat, stops_q.lng,
                                                stops_q.radius_m, stops_q.limit))]
    /\ UNCHANGED engine_vars
    /\ UNCHANGED <<session, http, mtd, sched, geo>>

StopsNext == SearchNearby

StopsSpec == StopsInit /\ [][StopsNext]_vars

Found == Get(stops_q.out)
DistanceOf(stop) == equator_distance_mm(stops_q.lng, stop[4])
WithinRadius(stop) == DistanceOf(stop) <= stops_q.radius_m * 1000

\* C17: search_nearby returns only stops within radius_m of the query point, in
\* non-decreasing order of distance, at most limit of them, and they are the
\* nearest: no stop within the radius is left out while a farther one, or fewer
\* than limit, are returned; without a database file it returns the empty list.
C17_NearestWithinRadius ==
    ~IsNone(stops_q.out) =>
       IF ~stops_q.db_exists THEN Found = <<>>
       ELSE /\ \A i \in 1..Len(Found) : WithinRadius(Found[i])
            /\ \A i \in 1..(Len(Found) - 1) :
                  DistanceOf(Found[i]) <= DistanceOf(Found[i + 1])
            /\ Len(Found) <= stops_q.limit
            /\ \A k \in 1..Len(stops_q.table) :
                  LET s == stops_q.table[k]
                  IN (WithinRadius(s) /\ \A i \in 1..Len(Found) : Found[i] # s) =>
                        /\ Len(Found) = stops_q.limit
                        /\ \A i \in 1..Len(Found) : DistanceOf(Found[i]) <= DistanceOf(s)

----------------------------------------------------------------------------
(* The schedule tables (data/buildings_repo.py): create_class and          *)
(* delete_class, and POST and DELETE /schedule/classes over them.          *)
(* Building ids are sequences of character codes, as they are stripped.    *)

\* most classes ever created in one run
MaxCreated == 2

\* "custom", "S", "X", and ids as a client may send them
IdCustom == <<99, 117, 115, 116, 111, 109>>
IdS == <<83>>
IdX == <<88>>
BuildingIdInputs == { None, Some(<<>>), Some(<<32>>), Some(IdS), Some(<<32, 83, 32>>),
                      Some(IdX) }

\* destination_lat and destination_lng: neither, both, or only the first
CoordinateInputs == { <<None, None>>, <<Some(24), Some(0)>>, <<Some(24), None>> }

\* the buildings table after init_app_db and seeding, after seeding alone, and
\* with no database file
BuildingTables ==
    { [db_exists |-> TRUE, buildings |-> {IdCustom, IdS}],
      [db_exists |-> TRUE, buildings |-> {IdS}],
      [db_exists |-> FALSE, buildings |-> {}] }

\* destination_name: absent, or " Z"
NameInputs == {None, Some(<<32, 90>>)}

ErrNoDatabase == "Database not initialized. Run seed_buildings.py first."
ErrNoCustom == "Custom address support not initialized. Run init_app_db first."
ErrProvide ==
    "Provide building_id or destination_lat, destination_lng, and destination_name."
ErrNotFound == "Building not found."

\* the row inserted by lines 212-231
ClassRow(cid, bid, use_custom, destination_lat, destination_lng, destination_name) ==
    [class_id |-> cid, building_id |-> bid,
     destination_lat |-> IF use_custom THEN destination_lat ELSE None,
     destination_lng |-> IF use_custom THEN destination_lng ELSE None,
     destination_name |-> IF use_custom THEN Some(Strip(OrEmpty(destination_name)))
                          ELSE None]

\* the building never looked up before the row is inserted
create_class_unchecked(db, classes, cid, building_id, destination_lat, destination_lng, destination_name) ==
    LET use_custom == ~IsNone(destination_lat) /\ ~IsNone(destination_lng)
    IN IF ~db.db_exists THEN [raised |-> Some(ErrNoDatabase), classes |-> classes]
       ELSE IF use_custom
       THEN [raised |-> None,
             classes |-> Append(classes, ClassRow(cid, IdCustom, TRUE, destination_lat,
                                                  destination_lng, destination_name))]
       ELSE IF Len(Strip(OrEmpty(building_id))) = 0
       THEN [raised |-> Some(ErrProvide), classes |-> classes]
       ELSE [raised |-> None,
             classes |-> Append(classes, ClassRow(cid, Strip(Get(building_id)), FALSE,
                                                  destination_lat, destination_lng,
                                                  destination_name))]

\* create_class, lines 198-243: the ValueError raised, or the table with the row
create_class(db, classes, cid, building_id, destination_lat, destination_lng, destination_name) ==
    LET use_custom == ~IsNone(destination_lat) /\ ~IsNone(destination_lng)
    IN IF ~db.db_exists THEN [raised |-> Some(ErrNoDatabase), classes |-> classes]
       ELSE IF use_custom
       THEN IF IdCustom \notin db.buildings
            THEN [raised |-> Some(ErrNoCustom), classes |-> classes]
            ELSE [raised |-> None,
                  classes |-> Append(classes,
                                     ClassRow(cid, IdCustom, TRUE, destination_lat,
                                              destination_lng, destination_name))]
       ELSE IF Len(Strip(OrEmpty(building_id))) = 0
       THEN [raised |-> Some(ErrProvide), classes |-> classes]
       ELSE IF Strip(Get(building_id)) \notin db.buildings
       THEN [raised |-> Some(ErrNotFound), classes |-> classes]
       ELSE [raised |-> None,
             classes |-> Append(classes,
                                ClassRow(cid, Strip(Get(building_id)), FALSE,
                                         destination_lat, destination_lng,
                                         destination_name))]

\* delete_class, lines 246-261: the table without the row
delete_class(db, classes, class_id) ==
    IF ~db.db_exists THEN classes
    ELSE SelectSeq(classes, LAMBDA c : c.class_id # class_id)

SchedInit ==
    /\ args = Unused
    /\ pc = "idle"
    /\ now_ts = 0
    /\ minutes_until_arrival = 0
    /\ walk_only_min = 0
    /\ walk_option = None
    /\ user_stops = <<>>
    /\ dest_stops = <<>>
    /\ exit_stop = None
    /\ walk_from_stop_min = 0
    /\ boards = <<>>
    /\ bus_candidates = <<>>
    /\ calls = <<>>
    /\ result = None
    /\ error = None
    /\ session = Unused
    /\ http = Unused
    /\ mtd = Unused
    /\ stops_q = Unused
    /\ sched \in { [db |-> db, classes |-> <<>>, created |-> 0, last |-> None] :
                   db \in BuildingTables }
    /\ geo = Unused

\* create_class called directly
CreateClass ==
    /\ sched.created < MaxCreated
    /\ \E building_id \in BuildingIdInputs, c \in CoordinateInputs,
          destination_name \in NameInputs :
         LET r == create_class(sched.db, sched.classes, sched.created + 1, building_id,
                               c[1], c[2], destination_name)
         IN sched' = [sched EXCEPT
                        !.classes = r.classes,
                        !.created = IF IsNone(r.raised) THEN @ + 1 ELSE @,
                        !.last = Some([op |-> "create", before |-> sched.classes,
                                       building_id |-> building_id,
                                       custom |-> ~IsNone(c[1]) /\ ~IsNone(c[2]),
                                       raised |-> r.raised, status |-> None])]
    /\ UNCHANGED engine_vars
    /\ UNCHANGED <<session, http, mtd, stops_q, geo>>

\* CreateClassRequest, schedule/models.py: building_id stripped and None when
\* blank; a body with neither or with both of building and coordinates is invalid
ValidatedBuildingId(building_id) ==
    IF Len(Strip(OrEmpty(building_id))) = 0 THEN None ELSE Some(Strip(Get(building_id)))
BodyInvalid(building_id, destination_lat, destination_lng) ==
    LET has_building == ~IsNone(ValidatedBuildingId(building_id))
        has_dest == ~IsNone(destination_lat) /\ ~IsNone(destination_lng)
    IN has_building = has_dest

\* POST /schedule/classes, main.py 380-407: 422 for an invalid body, else
\* create_class: 201 with the record, 400 on ValueError
PostScheduleClass ==
    /\ sched.created < MaxCreated
    /\ \E building_id \in BuildingIdInputs, c \in CoordinateInputs,
          destination_name \in NameInputs :
         LET r == create_class(sched.db, sched.classes, sched.created + 1,
                               ValidatedBuildingId(building_id), c[1], c[2],
                               destination_name)
         IN sched' =
              IF BodyInvalid(building_id, c[1], c[2])
              THEN [sched EXCEPT
                      !.last = Some([op |-> "rejected", before |-> sched.classes,
                                     building_id |-> building_id,
                                     custom |-> ~IsNone(c[1]) /\ ~IsNone(c[2]),
                                     raised |-> None, status |-> Some(422)])]
              ELSE [sched EXCEPT
                      !.classes = r.classes,
                      !.created = IF IsNone(r.raised) THEN @ + 1 ELSE @,
                      !.last = Some([op |-> "post", before |-> sched.classes,
                                     building_id |-> building_id,
                                     custom |-> ~IsNone(c[1]) /\ ~IsNone(c[2]),
                                     raised |-> r.raised,
                                     status |-> IF IsNone(r.raised) THEN Some(201)
                                                ELSE Some(400)])]
    /\ UNCHANGED engine_vars
    /\ UNCHANGED <<session, http, mtd, stops_q, geo>>

\* DELETE /schedule/classes/{class_id}, main.py 410-415: 204, or 404 when no row
\* was deleted
DeleteScheduleClass ==
    /\ \E class_id \in 1..MaxCreated :
         LET after == delete_class(sched.db, sched.classes, class_id)
         IN sched' = [sched EXCEPT
                        !.classes = after,
                        !.last = Some([op |-> "delete", before |-> sched.classes,
                                       building_id |-> None, custom |-> FALSE,
                                       raised |-> None,
                                       status |-> IF Len(after) < Len(sched.classes)
                                                  THEN Some(204) ELSE Some(404)])]
    /\ UNCHANGED engine_vars
    /\ UNCHANGED <<session, http, mtd, stops_q, geo>>

SchedNext == CreateClass \/ PostScheduleClass \/ DeleteScheduleClass

SchedSpec == SchedInit /\ [][SchedNext]_vars

LastOp == Get(sched.last)

\* the last call was create_class, directly or from POST /schedule/classes,
\* without both coordinates and with an id that, stripped as the function reads
\* it, names no row of buildings
UnknownBuildingGiven ==
    /\ ~IsNone(sched.last)
    /\ LastOp.op \in {"create", "post"}
    /\ ~LastOp.custom
    /\ Strip(OrEmpty(LastOp.building_id)) \notin sched.db.buildings

\* C18: create_class with a building_id that is not in the buildings table, and
\* no custom coordinates, raises ValueError and leaves schedule_classes as it was
\* (POST /schedule/classes answers 400); after any sequence of create_class and
\* delete_class calls every stored class has a building_id of the buildings table.
C18_UnknownBuildingRejected ==
    /\ UnknownBuildingGiven =>
          /\ ~IsNone(LastOp.raised)
          /\ LastOp.op = "post" => LastOp.status = Some(400)
          /\ sched.classes = LastOp.before
    /\ \A i \in 1..Len(sched.classes) :
          sched.classes[i].building_id \in sched.db.buildings

\* C18 witness: a class is stored, and a POST naming the unknown building X has
\* just been answered 400 with the table left as it was
C18_Witness ==
    /\ UnknownBuildingGiven
    /\ LastOp.op = "post"
    /\ LastOp.building_id = Some(IdX)
    /\ LastOp.raised = Some(ErrNotFound)
    /\ Len(sched.classes) = 1

\* ---------------------------------------------------------------------------
\* Great-circle distance, src/backend/src/data/geo.py
\* ---------------------------------------------------------------------------
\* Coordinates are whole even degrees, so that half a difference of two of them
\* is a whole degree; sines, cosines and the haversine a are thousandths, each
\* product rounded to the nearest thousandth as each float operation is rounded
\* to the nearest float.

EARTH_RADIUS_KM == 6371

GeoScale == 1000

\* math.radians: pi / 180, in millionths
RadiansMicro == 17453

\* math.sin of 0..90 degrees, in thousandths
SinTable ==
    <<
       0, 17, 35, 52, 70, 87, 105, 122, 139, 156,
       174, 191, 208, 225, 242, 259, 276, 292, 309, 326,
       342, 358, 375, 391, 407, 423, 438, 454, 469, 485,
       500, 515, 530, 545, 559, 574, 588, 602, 616, 629,
       643, 656, 669, 682, 695, 707, 719, 731, 743, 755,
       766, 777, 788, 799, 809, 819, 829, 839, 848, 857,
       866, 875, 883, 891, 899, 906, 914, 921, 927, 934,
       940, 946, 951, 956, 961, 966, 970, 974, 978, 982,
       985, 988, 990, 993, 995, 996, 998, 999, 999, 1000,
       1000
    >>

\* math.sin(math.radians(deg)) for -360 <= deg <= 360: odd, and symmetric about 90
Sin(deg) ==
    LET d == Abs(deg) % 360
        m == IF d < 180 THEN SinTable[(IF d <= 90 THEN d ELSE 180 - d) + 1]
             ELSE -SinTable[(IF d - 180 <= 90 THEN d - 180 ELSE 360 - d) + 1]
    IN IF deg >= 0 THEN m ELSE -m

\* math.cos(math.radians(deg))
Cos(deg) == Sin(90 - deg)

\* x * y in thousandths, rounded to nearest
GeoMul(x, y) == (x * y + GeoScale \div 2) \div GeoScale

\* atan2(sqrt(a), sqrt(1 - a)) in degrees for 0 <= a <= 1: the greatest whole
\* angle whose squared sine does not exceed a
HalfAngle(a) ==
    CHOOSE t \in 0..90 :
        /\ SinTable[t + 1] * SinTable[t + 1] <= a * GeoScale
        /\ \A u \in (t + 1)..90 : SinTable[u + 1] * SinTable[u + 1] > a * GeoScale

\* EARTH_RADIUS_KM * c for c = 2 * half degrees, in whole kilometres
ArcKm(half) == (((EARTH_RADIUS_KM * RadiansMicro) \div GeoScale) * 2 * half) \div GeoScale

ErrMathDomain == "math domain error"

\* geo.py 10-21 with cos(lat1) taken twice
haversine_distance_km_one_cos(lat1, lng1, lat2, lng2) ==
    LET dlat == lat2 - lat1
        dlng == lng2 - lng1
        sin_dlat == Sin(dlat \div 2)
        sin_dlng == Sin(dlng \div 2)
        a == GeoMul(sin_dlat, sin_dlat)
             + GeoMul(GeoMul(Cos(lat1), Cos(lat1)), GeoMul(sin_dlng, sin_dlng))
    IN IF a > GeoScale
       THEN [raised |-> Some(ErrMathDomain), km |-> None]
       ELSE [raised |-> None,
             km |-> Some(ArcKm(HalfAngle(a)))]

\* geo.py 10-21: the distance in whole kilometres, or the ValueError that
\* math.sqrt(1 - a) raises when rounding has carried a above 1
haversine_distance_km(lat1, lng1, lat2, lng2) ==
    LET dlat == lat2 - lat1
        dlng == lng2 - lng1
        sin_dlat == Sin(dlat \div 2)
        sin_dlng == Sin(dlng \div 2)
        a == GeoMul(sin_dlat, sin_dlat)
             + GeoMul(GeoMul(Cos(lat1), Cos(lat2)), GeoMul(sin_dlng, sin_dlng))
    IN IF a > GeoScale
       THEN [raised |-> Some(ErrMathDomain), km |-> None]
       ELSE [raised |-> None,
             km |-> Some(ArcKm(HalfAngle(a)))]

\* latitude and longitude pairs: poles, the equator, both sides of the
\* antimeridian, and points that have their antipodes in the set
GeoPoints == {-90, -40, -20, 0, 20, 40, 90} \X {-180, -160, 0, 20, 180}

GeoInit ==
    /\ geo \in [a : GeoPoints, b : GeoPoints, ab : {None}, ba : {None}, aa : {None}]
    /\ args = Unused
    /\ pc = "idle"
    /\ now_ts = 0
    /\ minutes_until_arrival = 0
    /\ walk_only_min = 0
    /\ walk_option = None
    /\ user_stops = <<>>
    /\ dest_stops = <<>>
    /\ exit_stop = None
    /\ walk_from_stop_min = 0
    /\ boards = <<>>
    /\ bus_candidates = <<>>
    /\ calls = <<>>
    /\ result = None
    /\ error = None
    /\ session = Unused
    /\ http = Unused
    /\ mtd = Unused
    /\ stops_q = Unused
    /\ sched = Unused

\* haversine_distance_km(a, b)
MeasureThere ==
    /\ IsNone(geo.ab)
    /\ geo' = [geo EXCEPT !.ab = Some(haversine_distance_km(geo.a[1], geo.a[2],
                                                          geo.b[1], geo.b[2]))]
    /\ UNCHANGED engine_vars
    /\ UNCHANGED <<session, http, mtd, stops_q, sched>>

\* haversine_distance_km(b, a)
MeasureBack ==
    /\ IsNone(geo.ba)
    /\ geo' = [geo EXCEPT !.ba = Some(haversine_distance_km(geo.b[1], geo.b[2],
                                                          geo.a[1], geo.a[2]))]
    /\ UNCHANGED engine_vars
    /\ UNCHANGED <<session, http, mtd, stops_q, sched>>

\* haversine_distance_km(a, a)
MeasureSelf ==
    /\ IsNone(geo.aa)
    /\ geo' = [geo EXCEPT !.aa = Some(haversine_distance_km(geo.a[1], geo.a[2],
                                                          geo.a[1], geo.a[2]))]
    /\ UNCHANGED engine_vars
    /\ UNCHANGED <<session, http, mtd, stops_q, sched>>

GeoNext == MeasureThere \/ MeasureBack \/ MeasureSelf

GeoSpec == GeoInit /\ [][GeoNext]_vars

----------------------------------------------------------------------------
(* The exit stop: calls whose destination-side query may return two stops  *)
(* at the same distance from the destination                               *)

\* a third stop, as far beyond the destination as stop B is before it
DestStopUniverse == StopUniverse \cup { <<"C", "Stop C", 28, 0>> }
DestStopLists == ListsOf(DestStopUniverse, Cardinality(DestStopUniverse))

\* now injected, the deadline 400 s ahead, 1.5 m/s, no buffer
ExitArgs ==
    { a \in Args : /\ a.now = Some(0)
                   /\ a.arrive_by_iso.form = "offset"
                   /\ a.walking_speed_mps = 15
                   /\ a.buffer_minutes = 0
                   /\ a.max_options = MaxOptionsIn }

ExitInit ==
    /\ args \in ExitArgs
    /\ pc = "call"
    /\ now_ts = 0
    /\ minutes_until_arrival = 0
    /\ walk_only_min = 0
    /\ walk_option = None
    /\ user_stops = <<>>
    /\ dest_stops = <<>>
    /\ exit_stop = None
    /\ walk_from_stop_min = 0
    /\ boards = <<>>
    /\ bus_candidates = <<>>
    /\ calls = <<>>
    /\ result = None
    /\ error = None
    /\ session = Unused
    /\ http = Unused
    /\ mtd = Unused
    /\ stops_q = Unused
    /\ sched = Unused
    /\ geo = Unused

ExitSearchDestStops == SearchDestStopsAmong(DestStopLists)

ExitNext == Enter \/ SearchUserStops \/ ExitSearchDestStops \/ BoardStop \/ Return

ExitSpec == ExitInit /\ [][ExitNext]_vars

\* distance of the i-th destination-side stop to the destination
DestDist(i) == Abs(dest_stops[i][3] - args.destination_lat)

\* the first of the destination-side stops that no other one is nearer than
FirstNearest ==
    CHOOSE i \in 1..Len(dest_stops) :
        /\ \A j \in 1..Len(dest_stops) : DestDist(i) <= DestDist(j)
        /\ \A j \in 1..(i - 1) : DestDist(j) > DestDist(i)

\* C21: one exit stop per call: the nearest destination-side stop, the first
\* returned among equidistant ones; every BUS option carries its id as
\* alighting_stop_id and the walk from it as WALK_TO_DEST duration.  With no
\* destination-side stop every BUS option has alighting_stop_id None, a
\* WALK_TO_DEST of exactly 5 minutes and a ride measured from the boarding stop
\* to the destination.
C21_SingleExitStop ==
    Done =>
      \A i \in 1..Len(Options) :
         Options[i].type = "BUS" =>
            LET ride == Options[i].steps[3]
                last == Options[i].steps[4]
                from == Options[i].steps[1].stop_lat
            IN IF dest_stops = <<>>
               THEN /\ ride.alighting_stop_id = None
                    /\ last.duration_minutes = 50
                    /\ ride.duration_minutes =
                         Round1(_ride_minutes_heuristic(Abs(from - args.destination_lat)))
               ELSE /\ ride.alighting_stop_id = Some(dest_stops[FirstNearest][1])
                    /\ last.duration_minutes =
                         Round1(_walk_minutes(DestDist(FirstNearest),
                                              Max2(1, args.walking_speed_mps)))
                    /\ ride.duration_minutes =
                         Round1(_ride_minutes_heuristic(
                                    Abs(from - dest_stops[FirstNearest][3])))

\* C21 witness: stop C is returned ahead of the equidistant stop B and behind
\* the farther stop A, and a returned BUS option alights at C
C21_Witness ==
    /\ Done
    /\ Len(dest_stops) = 3
    /\ dest_stops[1][1] = "A" /\ dest_stops[2][1] = "C" /\ dest_stops[3][1] = "B"
    /\ \E i \in 1..Len(Options) :
          /\ Options[i].type = "BUS"
          /\ Options[i].steps[3].alighting_stop_id = Some("C")

----------------------------------------------------------------------------
(* The slot reserved for the WALK option *)

BusOptions == SelectSeq(Options, LAMBDA o : o.type = "BUS")

\* BUS options the call may return: max_options, less the slot of the WALK option
BusSlots == args.max_options - (IF IsNone(walk_option) THEN 0 ELSE 1)

CandidateKey(k) == <<bus_candidates[k][1], bus_candidates[k][2].summary>>

\* how many candidates come before the k-th when they are ordered by (un-rounded
\* total eta, summary), candidates of equal key staying in the order they were found
CandidateRank(k) ==
    Cardinality({ j \in 1..Len(bus_candidates) :
                    \/ KeyLess(CandidateKey(j), CandidateKey(k))
                    \/ (CandidateKey(j) = CandidateKey(k) /\ j < k) })

\* C22: one slot is reserved for the WALK option: when it was emitted the result
\* contains it (also for max_options = 1) and holds at most max_options - 1 BUS
\* options, otherwise at most max_options; the BUS options returned are the first
\* of the within-budget candidates ordered by (un-rounded total eta, summary), as
\* many as the slots allow.
C22_SlotReservedForWalk ==
    Done =>
      /\ ~IsNone(walk_option) =>
            \E i \in 1..Len(Options) : Options[i] = Get(walk_option)
      /\ Len(BusOptions) <= BusSlots
      /\ Len(BusOptions) = Min2(Len(bus_candidates), BusSlots)
      /\ \A i \in 1..Len(BusOptions) :
            \E k \in 1..Len(bus_candidates) : bus_candidates[k][2] = BusOptions[i]
      /\ \A k \in 1..Len(bus_candidates) :
            Cardinality({ i \in 1..Len(BusOptions) : BusOptions[i] = bus_candidates[k][2] })
              = Cardinality({ j \in 1..Len(bus_candidates) :
                                /\ CandidateRank(j) < Len(BusOptions)
                                /\ bus_candidates[j][2] = bus_candidates[k][2] })

\* C22 witness: max_options = 1, a BUS candidate quicker than the walk, and the
\* result is the WALK option alone
C22_Witness ==
    /\ Done
    /\ args.max_options = 1
    /\ ~IsNone(walk_option)
    /\ \E k \in 1..Len(bus_candidates) : bus_candidates[k][1] < walk_only_min
    /\ Options = <<Get(walk_option)>>

----------------------------------------------------------------------------
(* The provider invocations of one call *)

\* the invocations of a call that found user_stops: the two locator queries,
\* then one departure lookup per boarding stop
ExpectedCalls ==
    << [fn |-> "search_nearby_stops", lat |-> args.lat, lng |-> args.lng,
        radius_m |-> 800, limit |-> 10],
       [fn |-> "search_nearby_stops", lat |-> args.destination_lat,
        lng |-> args.destination_lng, radius_m |-> 500, limit |-> 5] >>
    \o [i \in 1..Len(user_stops) |-> [fn |-> "get_departures", stop_id |-> user_stops[i][1]]]

\* C23: a successful call queries the stop locator exactly twice, first with
\* (rider position, 800, 10), then with (destination, 500, 5), then looks up the
\* departures exactly once per boarding stop of the first query, in the order
\* returned, and never invokes the building lookup; while the call runs its
\* invocations so far are the beginning of that sequence.
C23_ProviderCallsInOrder ==
    /\ \A i \in 1..Len(calls) : calls[i].fn # "get_building"
    /\ pc \in {"search_dest", "board", "done"} =>
          /\ Len(calls) <= Len(ExpectedCalls)
          /\ \A i \in 1..Min2(Len(calls), Len(ExpectedCalls)) : calls[i] = ExpectedCalls[i]
    /\ Done => Len(calls) = Len(ExpectedCalls)

\* C23 witness: a call that returned after boarding at two stops
C23_Witness ==
    /\ Done
    /\ Len(user_stops) = 2
    /\ Len(calls) = 4
    /\ calls[3].stop_id # calls[4].stop_id

----------------------------------------------------------------------------
(* The time to leave of a BUS option *)

\* C30: for every returned BUS option, before rounding, depart_in + total eta +
\* buffer_minutes is the time between now and the deadline: the option is built
\* from a candidate whose total eta is walk_to_stop + wait + ride + walk_from_stop
\* of one departure of its boarding stop, the time left after total eta and
\* buffer is not negative (so it is not floored at 0), and the emitted
\* depart_in_minutes and eta_minutes are the roundings of the two.
C30_BusDepartInAddsUp ==
    Done =>
      \A n \in 1..Len(Options) :
         Options[n].type = "BUS" =>
            \E k \in 1..Len(bus_candidates) :
               LET total_eta == bus_candidates[k][1]
                   depart_in == minutes_until_arrival - total_eta - args.buffer_minutes
               IN /\ bus_candidates[k][2] = Options[n]
                  /\ depart_in >= 0
                  /\ Options[n].depart_in_minutes = Round1(depart_in)
                  /\ Options[n].eta_minutes = Round1(total_eta)
                  /\ \E i \in 1..Len(boards) : \E j \in 1..Len(boards[i]) :
                        /\ user_stops[i][1] = Options[n].steps[1].stop_id
                        /\ total_eta = TotalOf(i, boards[i][j])

\* C30 witness: a returned BUS option with a buffer, a wait and time to spare
C30_Witness ==
    /\ Done
    /\ args.buffer_minutes > 0
    /\ \E n \in 1..Len(Options) :
          /\ Options[n].type = "BUS"
          /\ Options[n].depart_in_minutes > 0
          /\ Options[n].steps[2].duration_minutes > 0

----------------------------------------------------------------------------
(* The options of the response against the options of the engine *)

\* an option without what the annotator adds
WithoutAi(o) == [o EXCEPT !.ai_explanation = None, !.ai_ranked = FALSE]

EngineObjects == OptionObjects(Get(result))

\* C24: whatever ranked_order the annotator returns, the options of the response
\* are a permutation of the engine's options: as many, each engine option as
\* often as the engine returned it, and only the first may carry an
\* ai_explanation and ai_ranked = true.
C24_ResponseIsPermutation ==
    (Sent /\ Response.status = 200 /\ pc = "done") =>
       /\ Len(Response.options) = Len(EngineObjects)
       /\ \A k \in 1..Len(EngineObjects) :
             Cardinality({ i \in 1..Len(Response.options) :
                             WithoutAi(Response.options[i]) = EngineObjects[k] })
               = Cardinality({ j \in 1..Len(EngineObjects) :
                                 EngineObjects[j] = EngineObjects[k] })
       /\ \A i \in 2..Len(Response.options) :
             Response.options[i] = WithoutAi(Response.options[i])

----------------------------------------------------------------------------
(* The retry loop of MTDClient.get_departures_by_stop, attempt by attempt *)

\* the engine not called
EngineIdle ==
    /\ args = Unused
    /\ pc = "idle"
    /\ now_ts = 0
    /\ minutes_until_arrival = 0
    /\ walk_only_min = 0
    /\ walk_option = None
    /\ user_stops = <<>>
    /\ dest_stops = <<>>
    /\ exit_stop = None
    /\ walk_from_stop_min = 0
    /\ boards = <<>>
    /\ bus_candidates = <<>>
    /\ calls = <<>>
    /\ result = None
    /\ error = None

\* most calls of one run
MaxRetryCalls == 2

\* how an attempt can fail and be retried: httpx.TimeoutException,
\* httpx.HTTPError (raise_for_status), ValueError of resp.json()
RetriedFailures == {"timeout", "http_error", "invalid_json"}

\* the same pause after every failed attempt
RetryDelay_constant(attempt) == MTD_RETRY_BASE_DELAY_SECONDS

\* lines 154-158: delay = min(base * 2**attempt, max)
RetryDelay(attempt) ==
    Min2(MTD_RETRY_BASE_DELAY_SECONDS * Pow2(attempt), MTD_RETRY_MAX_DELAY_SECONDS)

RetryInit ==
    /\ EngineIdle
    /\ session = Unused
    /\ http = Unused
    /\ mtd = [clock |-> 0,
              store |-> [k \in CacheKeys |-> None],
              fetched |-> 0,
              call |-> None,
              log |-> <<>>]
    /\ stops_q = Unused
    /\ sched = Unused
    /\ geo = Unused

\* time passes between two calls
RetryTimePasses ==
    /\ IsNone(mtd.call)
    /\ Len(mtd.log) < MaxRetryCalls
    /\ \E dt \in Pauses :
         /\ mtd.clock + dt <= MaxClock
         /\ mtd' = [mtd EXCEPT !.clock = @ + dt]
    /\ UNCHANGED engine_vars
    /\ UNCHANGED not_mtd

\* lines 104-118: the cache is asked; a hit returns, a miss enters the loop
BeginCall ==
    /\ IsNone(mtd.call)
    /\ Len(mtd.log) < MaxRetryCalls
    /\ \E r \in MtdRequests :
         LET ckey == _cache_key(r[1], r[2])
             cached == CacheGet(mtd.store, ckey, mtd.clock)
         IN mtd' =
              IF ~IsNone(cached.value)
              THEN [mtd EXCEPT
                      !.log = Append(@, [key |-> ckey, requests |-> 0, slept |-> <<>>,
                                         outcome |-> "hit", returned |-> cached.value,
                                         at_miss |-> mtd.store, after |-> mtd.store,
                                         ended |-> mtd.clock])]
              ELSE [mtd EXCEPT
                      !.store = cached.store,
                      !.call = Some([key |-> ckey, attempt |-> 0, slept |-> <<>>,
                                     at_miss |-> cached.store])]
    /\ UNCHANGED engine_vars
    /\ UNCHANGED not_mtd

\* lines 120-136: the attempt succeeds: normalize, cache, return
AttemptSucceeds ==
    /\ ~IsNone(mtd.call)
    /\ LET c == Get(mtd.call)
           normalized == mtd.fetched + 1
           store == CacheSet(mtd.store, c.key, normalized, mtd.clock)
       IN mtd' = [mtd EXCEPT
                    !.store = store,
                    !.fetched = normalized,
                    !.call = None,
                    !.log = Append(@, [key |-> c.key, requests |-> c.attempt + 1,
                                       slept |-> c.slept, outcome |-> "returned",
                                       returned |-> Some(normalized),
                                       at_miss |-> c.at_miss, after |-> store,
                                       ended |-> mtd.clock])]
    /\ UNCHANGED engine_vars
    /\ UNCHANGED not_mtd

\* lines 137-164: the attempt fails in a way the loop catches: sleep and go
\* round again, or, after the last attempt, raise RuntimeError
AttemptFails ==
    /\ ~IsNone(mtd.call)
    /\ \E failure \in RetriedFailures :
         LET c == Get(mtd.call)
         IN mtd' =
              IF c.attempt < MTD_RETRY_ATTEMPTS - 1
              THEN [mtd EXCEPT
                      !.clock = @ + RetryDelay(c.attempt),
                      !.call = Some([c EXCEPT !.attempt = @ + 1,
                                              !.slept = Append(@, RetryDelay(c.attempt))])]
              ELSE [mtd EXCEPT
                      !.call = None,
                      !.log = Append(@, [key |-> c.key, requests |-> c.attempt + 1,
                                         slept |-> c.slept, outcome |-> "RuntimeError",
                                         returned |-> None,
                                         at_miss |-> c.at_miss, after |-> mtd.store,
                                         ended |-> mtd.clock])]
    /\ UNCHANGED engine_vars
    /\ UNCHANGED not_mtd

\* lines 123-124: the body is JSON but not an object: raw.get raises
\* AttributeError, which no except clause of the loop catches
AttemptNotAnObject ==
    /\ ~IsNone(mtd.call)
    /\ LET c == Get(mtd.call)
       IN mtd' = [mtd EXCEPT
                    !.call = None,
                    !.log = Append(@, [key |-> c.key, requests |-> c.attempt + 1,
                                       slept |-> c.slept, outcome |-> "AttributeError",
                                       returned |-> None,
                                       at_miss |-> c.at_miss, after |-> mtd.store,
                                       ended |-> mtd.clock])]
    /\ UNCHANGED engine_vars
    /\ UNCHANGED not_mtd

RetryNext ==
    RetryTimePasses \/ BeginCall \/ AttemptSucceeds \/ AttemptFails \/ AttemptNotAnObject

RetrySpec == RetryInit /\ [][RetryNext]_vars

\* the pauses of a call that made n attempts and went on after each but the last
PausesOf(n) == SubSeq(<<1, 2>>, 1, Min2(2, n - 1))

\* C25: a call that misses the cache makes at most 3 upstream attempts; it waits
\* 1 s and then 2 s after a failed attempt and not after the last; the first
\* successful attempt caches the normalized result for the key and returns it;
\* after 3 failed attempts RuntimeError is raised and the cache is as the miss
\* left it.
C25_ThreeAttemptsWithBackoff ==
    /\ ~IsNone(mtd.call) =>
          /\ Get(mtd.call).attempt + 1 <= 3
          /\ Get(mtd.call).slept = PausesOf(Get(mtd.call).attempt + 1)
          /\ mtd.store = Get(mtd.call).at_miss
    /\ \A i \in 1..Len(mtd.log) :
          LET c == mtd.log[i]
          IN /\ c.requests <= 3
             /\ c.outcome = "returned" =>
                   /\ c.requests >= 1
                   /\ c.slept = PausesOf(c.requests)
                   /\ c.after = [c.at_miss EXCEPT ![c.key] =
                                    Some([value |-> Get(c.returned),
                                          expires_at |-> c.ended + 60])]
             /\ c.outcome = "RuntimeError" =>
                   /\ c.requests = 3
                   /\ c.slept = <<1, 2>>
                   /\ c.after = c.at_miss
                   /\ IsNone(c.after[c.key])

\* C25 witness: one call returned on its third attempt, after pauses of 1 s and
\* 2 s, and another raised RuntimeError after three
C25_Witness ==
    /\ \E i \in 1..Len(mtd.log) :
          /\ mtd.log[i].outcome = "returned"
          /\ mtd.log[i].requests = 3
          /\ mtd.log[i].slept = <<1, 2>>
    /\ \E i \in 1..Len(mtd.log) : mtd.log[i].outcome = "RuntimeError"

----------------------------------------------------------------------------
(* GET /geocode: _nominatim_lookup, its cache and its semaphore            *)
(* Times are twentieths of a second.  The coroutines run on one event loop: *)
(* a step runs from one suspension (awaiting the semaphore, the HTTP call,  *)
(* the sleep) to the next without interleaving.                             *)

GEOCODE_CACHE_TTL == 86400

UnitsPerSecond == 20
\* asyncio.sleep(1.05)
SleepUnits == 21
TtlUnits == GEOCODE_CACHE_TTL * UnitsPerSecond
\* the clock advances by 0.35 s at a time
TickUnits == 7

\* GEOCODE_CACHE_MAX (1000 in main.py) scaled to the queries of the model: the
\* cache is at capacity when it holds this many entries
CacheMax == 1
\* most /geocode requests of one run, and most ticks of the clock
MaxGeocodes == 3
MaxGeoTicks == 6

GeoQueries == {"siebel center", "green st"}

\* lines 146-149 and 153-156: the entry of query is there and not expired
CacheFresh(cache, query, t) ==
    /\ ~IsNone(cache[query])
    /\ t < Get(cache[query]).expires_at

\* lines 194-198: evict the entry that expires first when at capacity, then store
CacheStore(cache, query, found, t) ==
    LET present == { k \in GeoQueries : ~IsNone(cache[k]) }
        oldest == CHOOSE k \in present :
                     \A m \in present :
                        Get(cache[k]).expires_at <= Get(cache[m]).expires_at
        full == Cardinality(present) >= CacheMax
        kept == IF full THEN [cache EXCEPT ![oldest] = None] ELSE cache
    IN [cache |-> [kept EXCEPT ![query] = Some([result |-> found,
                                                expires_at |-> t + TtlUnits])],
        evicted |-> IF full THEN Some(oldest) ELSE None]

\* asyncio.Semaphore.release(): the semaphore goes to the longest waiter
Release(h) ==
    IF h.waiters = <<>>
    THEN [h EXCEPT !.holder = None]
    ELSE [h EXCEPT !.holder = Some(Head(h.waiters)),
                   !.waiters = Tail(@),
                   !.co[Head(h.waiters)].pc = "woken"]

\* lines 158-175: the request to Nominatim leaves, coroutine i awaits the answer
StartRequest(h, i) ==
    [h EXCEPT !.holder = Some(i),
              !.co[i].pc = "requesting",
              !.requests = Append(@, [query |-> h.co[i].query, co |-> i,
                                      start |-> h.clock, end |-> None, ok |-> FALSE])]

\* coroutine i returns or raises
Finish(h, i, via, out, raised) ==
    [h EXCEPT !.co[i].pc = "done", !.co[i].via = via, !.co[i].out = out,
              !.co[i].raised = raised]

GeocodeInit ==
    /\ EngineIdle
    /\ session = Unused
    /\ http = [clock |-> 0, ticks |-> 0, paused |-> FALSE,
               cache |-> [q \in GeoQueries |-> None],
               holder |-> None, waiters |-> <<>>, co |-> <<>>,
               requests |-> <<>>, stores |-> <<>>, evictions |-> <<>>]
    /\ mtd = Unused
    /\ stops_q = Unused
    /\ sched = Unused
    /\ geo = Unused

Active == { i \in 1..Len(http.co) : http.co[i].pc # "done" }
RequestOf(i) == CHOOSE n \in 1..Len(http.requests) : http.requests[n].co = i

\* a GET /geocode arrives, lines 259-276 and 145-175: served from the cache, or
\* the semaphore is free and the request to Nominatim leaves, or it waits
Geocode ==
    /\ Len(http.co) < MaxGeocodes
    /\ \E q \in GeoQueries :
         LET i == Len(http.co) + 1
             h == [http EXCEPT !.co = Append(@, [query |-> q, pc |-> "new",
                                                 wake_at |-> 0, data |-> "none",
                                                 via |-> "none", out |-> None,
                                                 raised |-> "none"])]
         IN http' =
              IF CacheFresh(http.cache, q, http.clock)
              THEN Finish(h, i, "cache", Some(Get(http.cache[q]).result), "none")
              ELSE IF IsNone(http.holder)
                   THEN StartRequest(h, i)
                   ELSE [h EXCEPT !.co[i].pc = "waiting", !.waiters = Append(@, i)]
    /\ UNCHANGED engine_vars
    /\ UNCHANGED not_http

\* the waiter that was given the semaphore checks the cache without asking
\* again inside it
WaiterRuns_no_recheck ==
    /\ \E i \in Active :
         /\ http.co[i].pc = "woken"
         /\ http' = StartRequest(http, i)
    /\ UNCHANGED engine_vars
    /\ UNCHANGED not_http

\* lines 151-175: the waiter that was given the semaphore checks the cache again
WaiterRuns ==
    /\ \E i \in Active :
         /\ http.co[i].pc = "woken"
         /\ http' =
              IF CacheFresh(http.cache, http.co[i].query, http.clock)
              THEN Release(Finish(http, i, "recheck",
                                  Some(Get(http.cache[http.co[i].query]).result),
                                  "none"))
              ELSE StartRequest(http, i)
    /\ UNCHANGED engine_vars
    /\ UNCHANGED not_http

\* lines 163-181: Nominatim answers, with a place or with an empty list; the
\* coroutine sleeps 1.05 s holding the semaphore
NominatimAnswers ==
    /\ \E i \in Active : \E data \in {"place", "empty"} :
         /\ http.co[i].pc = "requesting"
         /\ http' = [http EXCEPT
                       !.requests[RequestOf(i)].end = Some(http.clock),
                       !.requests[RequestOf(i)].ok = TRUE,
                       !.co[i].pc = "sleeping",
                       !.co[i].data = data,
                       !.co[i].wake_at = http.clock + SleepUnits]
    /\ UNCHANGED engine_vars
    /\ UNCHANGED not_http

\* lines 163-178: the request fails; RuntimeError leaves the async with block,
\* which releases the semaphore
NominatimFails ==
    /\ \E i \in Active :
         /\ http.co[i].pc = "requesting"
         /\ http' = Release(Finish([http EXCEPT
                                      !.requests[RequestOf(i)].end = Some(http.clock)],
                                   i, "request", None, "RuntimeError"))
    /\ UNCHANGED engine_vars
    /\ UNCHANGED not_http

\* lines 181-199: the sleep is over, the semaphore is released; no place gives
\* LookupError, a place is stored in the cache and returned
SleepEnds ==
    /\ \E i \in Active :
         /\ http.co[i].pc = "sleeping"
         /\ http.clock >= http.co[i].wake_at
         /\ LET q == http.co[i].query
                stored == CacheStore(http.cache, q, RequestOf(i), http.clock)
            IN http' =
                 IF http.co[i].data = "empty"
                 THEN Release(Finish(http, i, "request", None, "LookupError"))
                 ELSE Release(Finish(
                        [http EXCEPT
                           !.cache = stored.cache,
                           !.stores = Append(@, [query |-> q, at |-> http.clock]),
                           !.evictions =
                              IF IsNone(stored.evicted) THEN @
                              ELSE Append(@, [query |-> Get(stored.evicted),
                                              at |-> http.clock])],
                        i, "request", Some(RequestOf(i)), "none"))
    /\ UNCHANGED engine_vars
    /\ UNCHANGED not_http

\* 0.35 s pass; a sleeper that is due wakes first
GeoTick ==
    /\ http.ticks < MaxGeoTicks
    /\ \A i \in Active : http.co[i].pc = "sleeping" => http.clock < http.co[i].wake_at
    /\ http' = [http EXCEPT !.clock = @ + TickUnits, !.ticks = @ + 1]
    /\ UNCHANGED engine_vars
    /\ UNCHANGED not_http

\* with no request in progress, 24 hours less 0.35 s pass
LongPause ==
    /\ ~http.paused
    /\ Active = {}
    /\ http.stores # <<>>
    /\ http' = [http EXCEPT !.clock = @ + TtlUnits - TickUnits, !.paused = TRUE]
    /\ UNCHANGED engine_vars
    /\ UNCHANGED not_http

GeocodeNext ==
    Geocode \/ WaiterRuns \/ NominatimAnswers \/ NominatimFails \/ SleepEnds
    \/ GeoTick \/ LongPause

GeocodeSpec == GeocodeInit /\ [][GeocodeNext]_vars

\* C26: the requests _nominatim_lookup sends to Nominatim are one per second:
\* at most one is in flight at a time, and the next does not start until at least
\* 1 second after the one before it completed, whether that one succeeded or
\* failed.
C26_OneRequestPerSecond ==
    \A m \in 1..Len(http.requests) : \A n \in (m + 1)..Len(http.requests) :
       /\ ~IsNone(http.requests[m].end)
       /\ http.requests[n].start - Get(http.requests[m].end) >= UnitsPerSecond

\* a result for the query of request n was stored before the request started and
\* less than 24 hours before
StoredWithin24h(n) ==
    { k \in 1..Len(http.stores) :
        /\ http.stores[k].query = http.requests[n].query
        /\ http.stores[k].at <= http.requests[n].start
        /\ http.requests[n].start < http.stores[k].at + 24 * 3600 * UnitsPerSecond }

EvictedSince(k, n) ==
    \E e \in 1..Len(http.evictions) :
       /\ http.evictions[e].query = http.stores[k].query
       /\ http.stores[k].at <= http.evictions[e].at
       /\ http.evictions[e].at <= http.requests[n].start

\* a request that waited for the semaphore and found the result on its re-check
\* returned it without a request of its own
RecheckServes ==
    \A i \in 1..Len(http.co) :
       http.co[i].via = "recheck" =>
          /\ \A n \in 1..Len(http.requests) : http.requests[n].co # i
          /\ \E n \in 1..Len(http.requests) :
                /\ http.requests[n].query = http.co[i].query
                /\ http.co[i].out = Some(n)

\* C27 as claimed: once a lookup has stored a result for a query, no request for
\* that query goes to Nominatim until 24 hours after it was stored: requests
\* waiting on the semaphore find it on their re-check and return it, and so does
\* every later request.
C27_OneRequestThenCachedFor24h ==
    /\ \A n \in 1..Len(http.requests) : StoredWithin24h(n) = {}
    /\ RecheckServes

\* C27 as amended: once a lookup has stored a result for a query, no request for
\* that query goes to Nominatim until 24 hours after it was stored, unless the
\* entry was evicted in between as the one expiring first when the cache was at
\* capacity; requests waiting on the semaphore find the result on their re-check
\* and return it without a request.
C27_CachedFor24hUnlessEvicted ==
    /\ \A n \in 1..Len(http.requests) :
          \A k \in StoredWithin24h(n) : EvictedSince(k, n)
    /\ RecheckServes

\* C27 witness: two requests for one query, the second waited for the semaphore
\* and returned the result the first had stored; one request went to Nominatim
C27_Witness ==
    /\ Len(http.co) >= 2
    /\ http.co[1].query = http.co[2].query
    /\ http.co[1].via = "request" /\ http.co[1].out = Some(1)
    /\ http.co[2].via = "recheck" /\ http.co[2].out = Some(1)
    /\ Len(http.requests) = 1

----------------------------------------------------------------------------
(* The middleware of main.py and the request counters of /metrics           *)

\* most requests of one run
MaxRequests == 3

AUTH_EXEMPT_PATHS == {"/health", "/metrics"}
RoutedPaths == {"/health", "/metrics", "/buildings"}
RequestPaths == RoutedPaths \cup {"/nowhere"}
Buckets == {"2xx", "4xx", "5xx", "other"}

\* Starlette's add_middleware puts the new class in front of the ones added
\* before: the first of the sequence is the outermost
add_middleware(stack, middleware) == <<middleware>> \o stack

\* main.py 89-102: the three calls in the order of the file
MiddlewareStack ==
    add_middleware(
        add_middleware(
            add_middleware(<<>>, "RequestLoggingMiddleware"),
            "OptionalAPIKeyMiddleware"),
        "CORSMiddleware")

\* metrics.py 11-21
record_request(counts, status_code) ==
    LET bucket == IF 200 <= status_code /\ status_code < 300 THEN "2xx"
                  ELSE IF 400 <= status_code /\ status_code < 500 THEN "4xx"
                  ELSE IF status_code >= 500 THEN "5xx"
                  ELSE "other"
    IN [counts EXCEPT ![bucket] = @ + 1]

\* metrics.py 29: requests_total
requests_total(counts) ==
    counts["2xx"] + counts["4xx"] + counts["5xx"] + counts["other"]

\* the route handler: /metrics reports the counters as they are, an unknown
\* path is answered 404, a handler that raises leaves the middleware as an
\* exception and is answered 500 by the server-error layer outside them
Route(req, counts) ==
    IF req.path \notin RoutedPaths
    THEN [status |-> 404, raised |-> FALSE, counts |-> counts, reported |-> None]
    ELSE IF req.raises
    THEN [status |-> 500, raised |-> TRUE, counts |-> counts, reported |-> None]
    ELSE [status |-> 200, raised |-> FALSE, counts |-> counts,
          reported |-> IF req.path = "/metrics"
                       THEN Some(requests_total(counts)) ELSE None]

\* the request enters layer k of the stack; the answer comes back with the
\* counters as the layers it passed left them
RECURSIVE Through(_, _, _, _, _)
Through(stack, k, req, required, counts) ==
    IF k > Len(stack) THEN Route(req, counts)
    ELSE IF stack[k] = "CORSMiddleware"
    THEN \* a preflight is answered by the CORS middleware itself
         IF req.preflight
         THEN [status |-> 200, raised |-> FALSE, counts |-> counts, reported |-> None]
         ELSE Through(stack, k + 1, req, required, counts)
    ELSE IF stack[k] = "OptionalAPIKeyMiddleware"
    THEN \* auth.py 36-48
         IF req.path \in AUTH_EXEMPT_PATHS \/ ~required \/ req.key_valid
         THEN Through(stack, k + 1, req, required, counts)
         ELSE [status |-> 401, raised |-> FALSE, counts |-> counts, reported |-> None]
    ELSE \* request_logging.py 22-36: an exception of call_next skips the record
         LET inner == Through(stack, k + 1, req, required, counts)
         IN IF inner.raised THEN inner
            ELSE [inner EXCEPT !.counts = record_request(inner.counts, inner.status)]

MiddlewareInit ==
    /\ EngineIdle
    /\ session = Unused
    /\ \E required \in BOOLEAN :
          http = [api_key_required |-> required,
                  stack |-> MiddlewareStack,
                  counts |-> [b \in Buckets |-> 0],
                  sent |-> <<>>]
    /\ mtd = Unused
    /\ stops_q = Unused
    /\ sched = Unused
    /\ geo = Unused

Answer(req) ==
    LET out == Through(http.stack, 1, req, http.api_key_required, http.counts)
    IN http' = [http EXCEPT
                  !.counts = out.counts,
                  !.sent = Append(@, [path |-> req.path, status |-> out.status,
                                      reported |-> out.reported])]

\* a GET request is answered
ServeRequest ==
    /\ Len(http.sent) < MaxRequests
    /\ \E path \in RequestPaths : \E key_valid \in BOOLEAN : \E raises \in BOOLEAN :
         /\ raises => path = "/buildings"
         /\ Answer([path |-> path, key_valid |-> key_valid, raises |-> raises,
                    preflight |-> FALSE])
    /\ UNCHANGED engine_vars
    /\ UNCHANGED not_http

\* a browser's CORS preflight (OPTIONS with Origin and
\* Access-Control-Request-Method) is answered
ServePreflight ==
    /\ Len(http.sent) < MaxRequests
    /\ \E path \in RequestPaths :
         Answer([path |-> path, key_valid |-> FALSE, raises |-> FALSE,
                 preflight |-> TRUE])
    /\ UNCHANGED engine_vars
    /\ UNCHANGED not_http

MiddlewareNext == ServeRequest \/ ServePreflight

MiddlewareSpec == MiddlewareInit /\ [][MiddlewareNext]_vars

\* C28: the request logging middleware runs for every request: every request
\* answered, a 401 of the API key middleware included, was recorded exactly
\* once, so the counters add up to the number of requests answered, and every
\* /metrics answer reported the number of requests answered before it.
C28_EveryRequestRecorded ==
    /\ requests_total(http.counts) = Len(http.sent)
    /\ \A n \in 1..Len(http.sent) :
          ~IsNone(http.sent[n].reported) => Get(http.sent[n].reported) = n - 1

----------------------------------------------------------------------------
(* Threads sharing one MTDClient: _TTLCache has no lock, and neither has     *)
(* get_departures_by_stop.  The endpoints that call the client are plain     *)
(* functions, which the server runs on a thread pool; a thread can be        *)
(* switched out between any two steps below.                                 *)

\* most concurrent calls of one run, most ticks of the clock, seconds per tick
MaxThreads == 3
MaxRaceTicks == 3
RaceTickSeconds == 30

RaceKeys == {"dep:IU:60", "dep:PAR:60"}

RaceInit ==
    /\ EngineIdle
    /\ session = Unused
    /\ http = Unused
    /\ mtd = [clock |-> 0, ticks |-> 0,
              store |-> [k \in RaceKeys |-> None],
              th |-> <<>>, upstream |-> <<>>, sets |-> <<>>]
    /\ stops_q = Unused
    /\ sched = Unused
    /\ geo = Unused

Running(at) == { t \in 1..Len(mtd.th) : mtd.th[t].pc = at }

\* client.py 99-103: a thread enters get_departures_by_stop
ThreadCalls ==
    /\ Len(mtd.th) < MaxThreads
    /\ \E k \in RaceKeys :
         mtd' = [mtd EXCEPT !.th = Append(@, [key |-> k, pc |-> "get",
                                              out |-> "none"])]
    /\ UNCHANGED engine_vars
    /\ UNCHANGED not_mtd

\* client.py 33-40 and 104-110: entry = self._store.get(key); no entry is a
\* miss, a live entry is returned, an expired one is to be deleted
ThreadReads ==
    /\ \E t \in Running("get") :
         LET entry == mtd.store[mtd.th[t].key]
         IN mtd' =
              IF IsNone(entry)
              THEN [mtd EXCEPT !.th[t].pc = "miss"]
              ELSE IF mtd.clock >= Get(entry).expires_at
              THEN [mtd EXCEPT !.th[t].pc = "delete"]
              ELSE [mtd EXCEPT !.th[t].pc = "done", !.th[t].out = "hit"]
    /\ UNCHANGED engine_vars
    /\ UNCHANGED not_mtd

\* client.py 38: del self._store[key] removes whatever entry is there now, and
\* raises KeyError when there is none
ThreadDeletes ==
    /\ \E t \in Running("delete") :
         mtd' =
           IF IsNone(mtd.store[mtd.th[t].key])
           THEN [mtd EXCEPT !.th[t].pc = "done", !.th[t].out = "KeyError"]
           ELSE [mtd EXCEPT !.store[mtd.th[t].key] = None, !.th[t].pc = "miss"]
    /\ UNCHANGED engine_vars
    /\ UNCHANGED not_mtd

\* client.py 117-124: the request to the transit API
ThreadFetches ==
    /\ \E t \in Running("miss") :
         mtd' = [mtd EXCEPT !.th[t].pc = "fetched",
                            !.upstream = Append(@, [key |-> mtd.th[t].key,
                                                    th |-> t, at |-> mtd.clock])]
    /\ UNCHANGED engine_vars
    /\ UNCHANGED not_mtd

\* client.py 125-133 and 41-42: the answer is stored with a new expiry
ThreadSets ==
    /\ \E t \in Running("fetched") :
         mtd' = [mtd EXCEPT
                   !.store[mtd.th[t].key] =
                      Some([value |-> t,
                            expires_at |-> mtd.clock + DEPARTURES_CACHE_TTL_SECONDS]),
                   !.sets = Append(@, [key |-> mtd.th[t].key, th |-> t,
                                       at |-> mtd.clock,
                                       replaced |-> mtd.store[mtd.th[t].key]]),
                   !.th[t].pc = "done", !.th[t].out = "fetched"]
    /\ UNCHANGED engine_vars
    /\ UNCHANGED not_mtd

RaceTick ==
    /\ mtd.ticks < MaxRaceTicks
    /\ mtd' = [mtd EXCEPT !.clock = @ + RaceTickSeconds, !.ticks = @ + 1]
    /\ UNCHANGED engine_vars
    /\ UNCHANGED not_mtd

RaceNext ==
    ThreadCalls \/ ThreadReads \/ ThreadDeletes \/ ThreadFetches \/ ThreadSets
    \/ RaceTick

RaceSpec == RaceInit /\ [][RaceNext]_vars

\* the entry thread t stored, if it has stored one
SetBy(t) == { n \in 1..Len(mtd.sets) : mtd.sets[n].th = t }

\* C29: the departures cache is single-flight per key: of two upstream requests
\* for one key the later starts only when the entry the earlier stored has
\* expired, no call raises KeyError from the concurrent access, and a set never
\* moves the expiry of an entry that is still live.
C29_SingleFlight ==
    /\ \A n \in 1..Len(mtd.upstream) : \A m \in (n + 1)..Len(mtd.upstream) :
          mtd.upstream[n].key = mtd.upstream[m].key =>
             \E s \in SetBy(mtd.upstream[n].th) :
                mtd.upstream[m].at >= mtd.sets[s].at + DEPARTURES_CACHE_TTL_SECONDS
    /\ \A t \in 1..Len(mtd.th) : mtd.th[t].out # "KeyError"
    /\ \A n \in 1..Len(mtd.sets) :
          \/ IsNone(mtd.sets[n].replaced)
          \/ mtd.sets[n].at >= Get(mtd.sets[n].replaced).expires_at
          \/ Get(mtd.sets[n].replaced).expires_at
                = mtd.sets[n].at + DEPARTURES_CACHE_TTL_SECONDS

====
